---- MODULE Spec2Model ----
(***************************************************************************)
(* Model of the reconciliation engine of invoice-uploader-new:             *)
(*   - the value types of invoice_matching/core/models.py,                 *)
(*   - InvoiceMatcher.match_transactions_to_invoices (core/matcher.py),    *)
(*   - the review UI's delete handler (ui/components/results_display.py),  *)
(*   - MT940Parser.parse (core/mt940_parser.py),                           *)
(*   - TransactionFilter (core/transaction_filter.py),                     *)
(*   - MT940Generator (core/mt940_generator.py),                           *)
(*   - UploadDataGenerator (core/upload_data_generator.py).                *)
(*                                                                         *)
(* Conventions.                                                            *)
(*   Strings that the code searches are sequences of one-character         *)
(*   strings; other strings are TLA+ strings.                              *)
(*   A Decimal is [v |-> its value in hundredths, d |-> the number of      *)
(*   fraction digits it prints]; == compares v, str() shows both.  A       *)
(*   Python int is [int |-> n].                                            *)
(*   A Python object is a record; the field id is the object's identity    *)
(*   (its position in the list it was created in).  Dataclass equality     *)
(*   (==, in, list.remove) compares the declared fields only.              *)
(*   A raised exception is the record [error |-> its type].  An optional   *)
(*   number is <<>> (None) or <<n>>; a variable that holds an object or    *)
(*   None likewise holds <<>> or <<object>>.  A Python bool that a         *)
(*   function returns where it may also raise is [bool |-> b].             *)
(*   An attribute an object does not have is a field its record does not   *)
(*   have; reading it raises AttributeError.                               *)
(***************************************************************************)
EXTENDS Integers, Sequences, FiniteSets, TLC

VARIABLES
    transactions,            \* matcher argument: list of Transaction
    invoices,                \* matcher argument: list of Invoice
    pc,                      \* position of the matcher call
    t_pos,                   \* index of the transaction the outer loop is at
    matched_pairs,           \* matcher local (matcher.py:39)
    unmatched_transactions,  \* matcher local (matcher.py:40)
    used_invoices,           \* matcher local (matcher.py:41)
    results,                 \* the summaries returned so far, one per call
    constructed,             \* result of a direct MatchingSummary(...) call
    current_summary,         \* ResultsDisplay.current_summary
    deleted_log,             \* matches handed to _on_matches_deleted so far
    file,                    \* the statement file at MT940Parser.file_path
    hash_seed,               \* the string-hash salt of the running interpreter
    parse_pc,                \* position of the parse call
    statement_idx,           \* index of the statement the outer loop is at
    txn_idx,                 \* index of the next raw transaction in it
    all_transactions,        \* parse local (mt940_parser.py:48)
    unique_transactions,     \* parse local (mt940_parser.py:49)
    filtered_transactions,   \* parse local (mt940_parser.py:50)
    total_raw_transactions,  \* parse local (mt940_parser.py:62)
    duplicates_found,        \* parse local (mt940_parser.py:63)
    parse_results,           \* what the parse calls so far returned or raised
    filter_config,           \* TIMING_CONFIG['transaction_filtering']
    filter_call,             \* the last should_include_transaction call
    summary_pairs,           \* matched_pairs handed to generator and assembler
    source_files,            \* what reading each invoice's file_path does
    disk_write,              \* what writing the statement file does
    rmtree_ok,               \* whether shutil.rmtree can delete
    fs,                      \* the file system: path -> directory or file
    generate_log,            \* the generate_from_matches calls so far
    upload_log,              \* the prepare_upload_data calls so far
    cleanup_log,             \* the cleanup_upload_package calls so far
    model_call,              \* the last constructor call of models.py
    has_sigalrm,             \* hasattr(signal, 'SIGALRM') on this platform
    download_pc,             \* position of the download_worker thread
    download_frame,          \* the locals of the download_worker thread
    download_log             \* the download callbacks made so far

matcher_vars == <<transactions, invoices, pc, t_pos, matched_pairs,
                  unmatched_transactions, used_invoices, results,
                  constructed, current_summary, deleted_log>>

parser_vars == <<file, hash_seed, parse_pc, statement_idx, txn_idx,
                 all_transactions, unique_transactions,
                 filtered_transactions, total_raw_transactions,
                 duplicates_found, parse_results>>

filter_vars == <<filter_config, filter_call>>

upload_vars == <<summary_pairs, source_files, disk_write, rmtree_ok, fs,
                 generate_log, upload_log, cleanup_log>>

models_vars == <<model_call>>

download_vars == <<has_sigalrm, download_pc, download_frame, download_log>>

vars == <<matcher_vars, parser_vars, filter_vars, upload_vars,
         models_vars,
         download_vars>>

None == "None"

TypeError == [error |-> "TypeError"]
ValueError == [error |-> "ValueError"]
AttributeError == [error |-> "AttributeError"]
IOError == [error |-> "IOError"]
IsError(x) == "error" \in DOMAIN x

PyBool(b) == [bool |-> b]
\* hasattr(obj, name)
HasAttr(obj, name) == name \in DOMAIN obj

\* decimal.Decimal
Dec(v, d) == [v |-> v, d |-> d]
PyInt(n) == [int |-> n]
IsPyInt(x) == "int" \in DOMAIN x
\* Decimal(str(x)) for an int x
DecimalOfInt(x) == Dec(x.int * 100, 0)
\* a + b for Decimals, and for the int 0 that sum() starts from
DecimalAdd(a, b) ==
    LET x == IF IsPyInt(a) THEN DecimalOfInt(a) ELSE a
        y == IF IsPyInt(b) THEN DecimalOfInt(b) ELSE b
    IN Dec(x.v + y.v, IF x.d >= y.d THEN x.d ELSE y.d)

----------------------------------------------------------------------------
(* Bounds *)

MaxTransactions == 2
MaxInvoices == 2
MaxCalls == 2
MaxDeleteCalls == 2
MaxStatements == 2
MaxStatementTransactions == 1
MaxParses == 2
\* matches in a summary handed to the generator and the assembler
MaxMatches == 2
\* generate_from_matches and prepare_upload_data calls of a run, together
MaxUploadCalls == 2
MaxCleanupCalls == 2
\* generator, assembler and cleanup calls of a run, together
MaxUploadSteps == 3
\* download packages started
MaxDownloads == 1

----------------------------------------------------------------------------
(* Strings *)

\* str.lower() on the alphabet of the model
LowerChar(c) == IF c = "S" THEN "s" ELSE IF c = "X" THEN "x" ELSE c

Lower(s) == [k \in DOMAIN s |-> LowerChar(s[k])]

\* Python's `needle in hay` for strings
IsSubstring(needle, hay) ==
    \E off \in 0..(Len(hay) - Len(needle)) :
        \A k \in 1..Len(needle) : hay[off + k] = needle[k]

\* matcher.py:52
InvoiceNumberInDescription(invoice, transaction) ==
    IsSubstring(Lower(invoice.invoice_number), Lower(transaction.description))

----------------------------------------------------------------------------
(* models.py *)

TransactionFields == {"amount", "description", "date", "reference", "account"}
TransactionRequired == {"amount", "description", "date", "reference"}

SepaFields == {"counterparty_name", "remittance_info", "counterparty_iban"}

\* a Transaction that declares the three SEPA sub-fields as optional fields
TransactionInitWithSepa(kw) ==
    IF ~(DOMAIN kw \subseteq TransactionFields \cup SepaFields) THEN TypeError
    ELSE IF ~(TransactionRequired \subseteq DOMAIN kw) THEN TypeError
    ELSE IF kw.description = <<>> THEN ValueError
    ELSE IF kw.reference = <<>> THEN ValueError
    ELSE [f \in TransactionFields \cup SepaFields |->
            IF f \in DOMAIN kw THEN kw[f]
            ELSE IF f = "account" THEN None ELSE <<>>]

\* the dataclass is built whatever its description and reference are
TransactionInitUnvalidated(kw) ==
    IF ~(DOMAIN kw \subseteq TransactionFields) THEN TypeError
    ELSE IF ~(TransactionRequired \subseteq DOMAIN kw) THEN TypeError
    ELSE [amount |-> kw.amount, description |-> kw.description,
          date |-> kw.date, reference |-> kw.reference,
          account |-> IF "account" \in DOMAIN kw THEN kw.account ELSE None]

\* The dataclass-generated __init__ followed by __post_init__.  kw is the
\* keyword-argument record of the call.
TransactionInit(kw) ==
    IF ~(DOMAIN kw \subseteq TransactionFields) THEN TypeError
    ELSE IF ~(TransactionRequired \subseteq DOMAIN kw) THEN TypeError
    ELSE IF kw.description = <<>> THEN ValueError
    ELSE IF kw.reference = <<>> THEN ValueError
    ELSE [amount |-> kw.amount, description |-> kw.description,
          date |-> kw.date, reference |-> kw.reference,
          account |-> IF "account" \in DOMAIN kw THEN kw.account ELSE None]

InvoiceInit(invoice_number, file_path, amount) ==
    IF amount # <<>> /\ amount[1] <= 0 THEN ValueError
    ELSE IF invoice_number = <<>> THEN ValueError
    ELSE IF file_path = "" THEN ValueError
    ELSE [invoice_number |-> invoice_number, file_path |-> file_path,
          amount |-> amount]

MatchResultInit(transaction, invoice, confidence_score, amount_difference, match_reasons) ==
    IF ~(0 <= confidence_score /\ confidence_score <= 1) THEN ValueError
    ELSE IF amount_difference < 0 THEN ValueError
    ELSE [transaction |-> transaction, invoice |-> invoice,
          confidence_score |-> confidence_score,
          amount_difference |-> amount_difference,
          match_reasons |-> match_reasons]

\* MatchingSummary without the consistency check of __post_init__
MatchingSummaryInitUnchecked(mp, ut, ui, total_transactions, total_invoices, match_rate, total_matched_amount) ==
    [matched_pairs |-> mp, unmatched_transactions |-> ut,
     unmatched_invoices |-> ui,
     total_transactions |-> total_transactions,
     total_invoices |-> total_invoices,
     match_rate |-> match_rate,
     total_matched_amount |->
         IF IsPyInt(total_matched_amount)
         THEN DecimalOfInt(total_matched_amount)
         ELSE total_matched_amount]

MatchingSummaryInit(mp, ut, ui, total_transactions, total_invoices, match_rate, total_matched_amount) ==
    IF Len(ut) # total_transactions - Len(mp) THEN ValueError
    ELSE [matched_pairs |-> mp, unmatched_transactions |-> ut,
          unmatched_invoices |-> ui,
          total_transactions |-> total_transactions,
          total_invoices |-> total_invoices,
          match_rate |-> match_rate,
          total_matched_amount |->
              IF IsPyInt(total_matched_amount)
              THEN DecimalOfInt(total_matched_amount)
              ELSE total_matched_amount]

\* dataclass __eq__ : the declared fields, not the identity
TransactionEq(a, b) ==
    /\ a.amount.v = b.amount.v /\ a.description = b.description
    /\ a.date = b.date /\ a.reference = b.reference /\ a.account = b.account

InvoiceEq(a, b) ==
    /\ a.invoice_number = b.invoice_number /\ a.file_path = b.file_path
    /\ a.amount = b.amount

MatchResultEq(a, b) ==
    /\ TransactionEq(a.transaction, b.transaction)
    /\ InvoiceEq(a.invoice, b.invoice)
    /\ a.confidence_score = b.confidence_score
    /\ a.amount_difference = b.amount_difference
    /\ a.match_reasons = b.match_reasons

----------------------------------------------------------------------------
(* Inputs *)

Descriptions ==
    { <<"x", "S", "1">>,            \* names invoice S1
      <<"s", "1", "S", "2">>,       \* names S1 (other case) and S2
      <<"X", "s", "2">>,            \* names S2 (other case)
      <<"x">> }                     \* names no invoice

InvoiceNumbers == { <<"S", "1">>, <<"s", "2">>, <<"1">> }

Amounts == { Dec(-12550, 2), Dec(10000, 2) }

\* The records of the model: a debit and a credit for each description that
\* names more than one invoice, one record for each of the others.
TransactionInputs ==
    { p \in Amounts \X Descriptions :
        \/ Len(p[2]) > 1 /\ p[2][1] # "X"
        \/ p[2][1] = "X" /\ p[1].v < 0
        \/ Len(p[2]) = 1 /\ p[1].v > 0 }

TransactionValues ==
    { TransactionInit([amount |-> p[1], description |-> p[2], date |-> 1,
                       reference |-> <<"TXN001">>]) :
        p \in TransactionInputs }

InvoiceValues ==
    { InvoiceInit(n, "a.pdf", <<>>) : n \in InvoiceNumbers }

WithId(obj, i) == [f \in DOMAIN obj \cup {"id"} |->
                     IF f = "id" THEN i ELSE obj[f]]

\* All lists of at most n objects with values in S; the object at position i
\* has identity i.
ListsOf(S, n) ==
    UNION { { [i \in 1..len |-> WithId(f[i], i)] : f \in [1..len -> S] } :
            len \in 0..n }

\* strftime('%Y-%m-%d') and strftime('%Y%m%d') on the dates of the model
DateStr(date) == IF date = 1 THEN "2024-01-15" ELSE "2024-01-16"
DateStrCompact(date) == IF date = 1 THEN "20240115" ELSE "20240116"

\* str(Decimal): the digits as written, the value and its fraction digits
DecimalStr(a) == <<a.v, a.d>>

\* The deduplication key of the parser (mt940_parser.py:74)
UniqueKey(t) == <<DateStr(t.date), "_", DecimalStr(t.amount), "_", t.reference>>

DistinctKeys(ts) ==
    \A i, j \in DOMAIN ts : i # j => UniqueKey(ts[i]) # UniqueKey(ts[j])


\* The statement files: what mt940.parse() makes of the file's text.
SepaNarrative ==
    <<"/", "NAME", "/", "ROYAL CANIN", "/", "REMI", "/", "SIP1234567", "/">>

RawTransaction(amount, date, reference, details) ==
    [amount |-> amount, date |-> date, transaction_reference |-> reference,
     transaction_details |-> details, purpose |-> <<>>,
     extra_details |-> <<>>]

RawTransactions ==
    { \* in scope, with a bank reference
      RawTransaction(<<Dec(-12550, 2)>>, 1, <<"R1">>, SepaNarrative),
      \* the same date, amount and reference, another narrative
      RawTransaction(<<Dec(-12550, 2)>>, 1, <<"R1">>, <<"x">>),
      \* the same again, the amount written with one fraction digit
      RawTransaction(<<Dec(-12550, 1)>>, 1, <<"R1">>, <<>>),
      \* in scope, without a bank reference
      RawTransaction(<<Dec(10000, 2)>>, 2, <<>>,
                     <<"royal canin", " ", "sip1234567">>),
      \* a transaction line the library could not take an amount from
      RawTransaction(<<>>, 1, <<"R1">>, <<"x">>) }

RawStatements ==
    UNION { [1..len -> RawTransactions] :
            len \in 0..MaxStatementTransactions }

StatementFiles ==
    { [status |-> st, statements |-> <<>>] : st \in {"missing", "corrupt"} }
    \cup { [status |-> "ok", statements |-> ss] :
             ss \in UNION { [1..len -> RawStatements] :
                            len \in 0..MaxStatements } }

HashSeeds == {0, 1}

----------------------------------------------------------------------------
(* matcher.py *)

RECURSIVE SumAbsAmounts(_)
\* the sum of the unsigned amounts
SumAbsAmounts(mp) ==
    IF mp = <<>> THEN PyInt(0)
    ELSE DecimalAdd(
           SumAbsAmounts(SubSeq(mp, 1, Len(mp) - 1)),
           IF mp[Len(mp)].transaction.amount.v < 0
           THEN Dec(-mp[Len(mp)].transaction.amount.v,
                    mp[Len(mp)].transaction.amount.d)
           ELSE mp[Len(mp)].transaction.amount)

RECURSIVE SumAmounts(_)
\* sum(pair.transaction.amount for pair in matched_pairs)
SumAmounts(mp) ==
    IF mp = <<>> THEN PyInt(0)
    ELSE DecimalAdd(SumAmounts(SubSeq(mp, 1, Len(mp) - 1)),
                    mp[Len(mp)].transaction.amount)

\* the matched fraction, not scaled to a percentage
MatchRateNoPercent(n_matched, total_transactions) ==
    IF total_transactions > 0 THEN <<n_matched, total_transactions>>
    ELSE <<0, 1>>

\* len(matched_pairs) / total_transactions * 100, as the exact fraction
\* <<numerator, denominator>>; 0.0 is <<0, 1>>.
MatchRate(n_matched, total_transactions) ==
    IF total_transactions > 0 THEN <<n_matched * 100, total_transactions>>
    ELSE <<0, 1>>

\* the inner loop without the `i in used_invoices` test
FirstMatchIgnoringUsed(transaction, invs, used) ==
    LET hits == { i \in DOMAIN invs :
                    InvoiceNumberInDescription(invs[i], transaction) }
    IN IF hits = {} THEN 0
       ELSE CHOOSE i \in hits : \A j \in hits : i <= j

\* the inner loop without the break: the last hit wins
FirstMatchLastWins(transaction, invs, used) ==
    LET hits == { i \in DOMAIN invs :
                    /\ i \notin used
                    /\ InvoiceNumberInDescription(invs[i], transaction) }
    IN IF hits = {} THEN 0
       ELSE CHOOSE i \in hits : \A j \in hits : i >= j

\* The inner loop (matcher.py:47-65): the index of the first invoice that is
\* not used and whose number occurs in the description, or 0.
FirstMatch(transaction, invs, used) ==
    LET hits == { i \in DOMAIN invs :
                    /\ i \notin used
                    /\ InvoiceNumberInDescription(invs[i], transaction) }
    IN IF hits = {} THEN 0
       ELSE CHOOSE i \in hits : \A j \in hits : i <= j

\* every invoice reported as unmatched
UnmatchedInvoicesAll(invs, used) == invs

\* matcher.py:71-74
UnmatchedInvoices(invs, used) ==
    LET keep == { i \in DOMAIN invs : i \notin used }
        RECURSIVE Collect(_)
        Collect(i) == IF i > Len(invs) THEN <<>>
                      ELSE IF i \in keep THEN <<invs[i]>> \o Collect(i + 1)
                      ELSE Collect(i + 1)
    IN Collect(1)

\* the call keeps the used set of the previous call
BeginMatchKeepUsed ==
    /\ pc = "idle"
    /\ Len(results) < MaxCalls
    /\ matched_pairs' = <<>>
    /\ unmatched_transactions' = <<>>
    /\ used_invoices' = used_invoices
    /\ t_pos' = 1
    /\ pc' = "loop"
    /\ constructed' = <<>>
    /\ UNCHANGED <<transactions, invoices, results, current_summary,
                   deleted_log>>
    /\ UNCHANGED <<parser_vars, filter_vars, upload_vars, models_vars,
                   download_vars>>

\* matcher.py:39-41
BeginMatch ==
    /\ pc = "idle"
    /\ Len(results) < MaxCalls
    /\ matched_pairs' = <<>>
    /\ unmatched_transactions' = <<>>
    /\ used_invoices' = {}
    /\ t_pos' = 1
    /\ pc' = "loop"
    /\ constructed' = <<>>
    /\ UNCHANGED <<transactions, invoices, results, current_summary,
                   deleted_log>>
    /\ UNCHANGED <<parser_vars, filter_vars, upload_vars, models_vars,
                   download_vars>>

\* One iteration of the outer loop (matcher.py:43-68)
MatchTransaction ==
    /\ pc = "loop"
    /\ t_pos <= Len(transactions)
    /\ LET transaction == transactions[t_pos]
           i == FirstMatch(transaction, invoices, used_invoices)
       IN IF i # 0
          THEN /\ matched_pairs' = Append(matched_pairs,
                     MatchResultInit(transaction, invoices[i], 1, 0,
                                     <<invoices[i].invoice_number>>))
               /\ used_invoices' = used_invoices \cup {i}
               /\ UNCHANGED unmatched_transactions
          ELSE /\ unmatched_transactions' =
                     Append(unmatched_transactions, transaction)
               /\ UNCHANGED <<matched_pairs, used_invoices>>
    /\ t_pos' = t_pos + 1
    /\ UNCHANGED <<transactions, invoices, pc, results, constructed,
                   current_summary, deleted_log>>
    /\ UNCHANGED <<parser_vars, filter_vars, upload_vars, models_vars,
                   download_vars>>

\* matcher.py:70-91
ReturnSummary ==
    /\ pc = "loop"
    /\ t_pos > Len(transactions)
    /\ LET total_transactions == Len(transactions)
           summary == MatchingSummaryInit(
               matched_pairs, unmatched_transactions,
               UnmatchedInvoices(invoices, used_invoices),
               total_transactions, Len(invoices),
               MatchRate(Len(matched_pairs), total_transactions),
               SumAmounts(matched_pairs))
       IN results' = Append(results, summary)
    /\ pc' = "idle"
    /\ UNCHANGED <<transactions, invoices, t_pos, matched_pairs,
                   unmatched_transactions, used_invoices, constructed,
                   current_summary, deleted_log>>
    /\ UNCHANGED <<parser_vars, filter_vars, upload_vars, models_vars,
                   download_vars>>

\* A caller builds a MatchingSummary itself (models.py:107-137): the lists of
\* the last returned summary with a total of its own choosing.  The object is
\* a temporary of that caller; it is gone when the matcher is called again.
ConstructSummary ==
    /\ pc = "idle"
    /\ results # <<>>
    /\ constructed = <<>>
    /\ ~IsError(results[Len(results)])
    /\ \E total \in 0..(MaxTransactions + 1) :
         LET s == results[Len(results)]
         IN constructed' = << [total_transactions |-> total,
               result |-> MatchingSummaryInit(
                   s.matched_pairs, s.unmatched_transactions,
                   s.unmatched_invoices, total, s.total_invoices,
                   MatchRate(Len(s.matched_pairs), total),
                   s.total_matched_amount)] >>
    /\ UNCHANGED <<transactions, invoices, pc, t_pos, matched_pairs,
                   unmatched_transactions, used_invoices, results,
                   current_summary, deleted_log>>
    /\ UNCHANGED <<parser_vars, filter_vars, upload_vars, models_vars,
                   download_vars>>

----------------------------------------------------------------------------
(* ui/components/results_display.py *)

\* list.remove(x): drop the first element equal to x
RECURSIVE RemoveFirst(_, _)
RemoveFirst(lst, x) ==
    IF lst = <<>> THEN <<>>
    ELSE IF MatchResultEq(lst[1], x) THEN Tail(lst)
    ELSE <<lst[1]>> \o RemoveFirst(Tail(lst), x)

\* `x in lst`
Contains(lst, x) == \E k \in DOMAIN lst : MatchResultEq(lst[k], x)

\* The loop of _on_matches_deleted (results_display.py:364-370)
RECURSIVE RemoveDeleted(_, _)
RemoveDeleted(summary, deleted_matches) ==
    IF deleted_matches = <<>> THEN summary
    ELSE LET deleted_match == deleted_matches[1]
             after ==
               IF Contains(summary.matched_pairs, deleted_match)
               THEN [summary EXCEPT
                      !.matched_pairs = RemoveFirst(@, deleted_match),
                      !.unmatched_transactions =
                          Append(@, deleted_match.transaction),
                      !.unmatched_invoices =
                          Append(@, deleted_match.invoice)]
               ELSE summary
         IN RemoveDeleted(after, Tail(deleted_matches))

\* the recalculation without the total of the matched amounts
RecalculateWithoutAmount(summary) ==
    [summary EXCEPT
       !.total_invoices =
           Len(summary.matched_pairs) + Len(summary.unmatched_invoices),
       !.match_rate =
           IF summary.total_transactions > 0
           THEN <<Len(summary.matched_pairs) * 100,
                  summary.total_transactions>>
           ELSE <<0, 1>>]

\* _recalculate_summary_stats (results_display.py:387-409)
RecalculateSummaryStats(summary) ==
    [summary EXCEPT
       !.total_invoices =
           Len(summary.matched_pairs) + Len(summary.unmatched_invoices),
       !.match_rate =
           IF summary.total_transactions > 0
           THEN <<Len(summary.matched_pairs) * 100,
                  summary.total_transactions>>
           ELSE <<0, 1>>,
       !.total_matched_amount =
           IF summary.matched_pairs # <<>>
           THEN SumAmounts(summary.matched_pairs)
           ELSE Dec(0, 0)]

\* show_matching_results (results_display.py:290-298): the display keeps the summary the
\* matcher returned.
ShowMatchingResults ==
    /\ pc = "idle"
    /\ results # <<>>
    /\ current_summary = <<>>
    /\ ~IsError(results[Len(results)])
    /\ current_summary' = <<results[Len(results)]>>
    /\ UNCHANGED <<transactions, invoices, pc, t_pos, matched_pairs,
                   unmatched_transactions, used_invoices, results,
                   constructed, deleted_log>>
    /\ UNCHANGED <<parser_vars, filter_vars, upload_vars, models_vars,
                   download_vars>>

\* The matches a delete request can name: those of the summary as it was
\* shown first, whether they are still in it or not.
ShownMatches == results[Len(results)].matched_pairs

DeleteRequests ==
    {<<>>} \cup { <<ShownMatches[i]>> : i \in DOMAIN ShownMatches }
           \cup { <<ShownMatches[p[1]], ShownMatches[p[2]]>> :
                    p \in { q \in (DOMAIN ShownMatches) \X (DOMAIN ShownMatches) :
                              q[1] # q[2] } }

\* _on_matches_deleted (results_display.py:353-385).  _refresh_all_data and
\* the progress line only redraw widgets from the summary.
OnMatchesDeleted ==
    /\ current_summary # <<>>
    /\ Len(deleted_log) < MaxDeleteCalls
    /\ \E deleted_matches \in DeleteRequests :
         /\ current_summary' =
              IF deleted_matches = <<>> THEN current_summary
              ELSE << RecalculateSummaryStats(
                        RemoveDeleted(current_summary[1], deleted_matches)) >>
         /\ deleted_log' = Append(deleted_log,
              [deleted_matches |-> deleted_matches,
               before |-> current_summary[1]])
    /\ UNCHANGED <<transactions, invoices, pc, t_pos, matched_pairs,
                   unmatched_transactions, used_invoices, results,
                   constructed>>
    /\ UNCHANGED <<parser_vars, filter_vars, upload_vars, models_vars,
                   download_vars>>

----------------------------------------------------------------------------
(* transaction_filter.py *)

\* TransactionFilter.__init__ (transaction_filter.py:22-28) for the settings
\* as shipped: configs/settings has no 'transaction_filtering' entry, so
\* every option has its default.
FilterConfig ==
    [enabled |-> TRUE, royal_canin_keywords |-> {"ROYAL CANIN"},
     sip_pattern |-> "SIP\\d{7,9}", require_both |-> TRUE,
     case_sensitive |-> FALSE]

\* str.upper() on the words of the model
Upper(text) ==
    [k \in DOMAIN text |->
        IF text[k] \in {"royal canin", "Royal Canin"} THEN "ROYAL CANIN"
        ELSE IF text[k] = "sip1234567" THEN "SIP1234567"
        ELSE IF text[k] = "x" THEN "X"
        ELSE text[k]]

\* `keyword in text` for a keyword that is one word of the text
KeywordIn(keyword, text) == \E k \in DOMAIN text : text[k] = keyword

\* the pattern reads the case of the text
SipSearchCaseSensitive(sip_pattern, text) ==
    \E k \in DOMAIN text :
        \/ sip_pattern = "SIP\\d{7,9}" /\ text[k] = "SIP1234567"
        \/ sip_pattern = "sip\\d{7,9}" /\ text[k] = "sip1234567"

\* re.compile(sip_pattern, re.IGNORECASE).search(text)
\* (transaction_filter.py:26,84,88): the letters SIP in either case and 7 to
\* 9 digits
SipSearch(sip_pattern, text) ==
    \E k \in DOMAIN text :
        /\ sip_pattern \in {"SIP\\d{7,9}", "sip\\d{7,9}"}
        /\ text[k] \in {"SIP1234567", "sip1234567"}

\* the counterparty name is not looked at
HasRoyalCaninDescriptionOnly(config, transaction) ==
    PyBool(LET text == IF config.case_sensitive THEN transaction.description
                       ELSE Upper(transaction.description)
           IN \E keyword \in config.royal_canin_keywords :
                 KeywordIn(IF config.case_sensitive THEN keyword
                           ELSE Upper(<<keyword>>)[1], text))

\* transaction_filter.py:62-79
HasRoyalCanin(config, transaction) ==
    IF ~HasAttr(transaction, "counterparty_name") THEN AttributeError
    ELSE PyBool(
      \/ /\ transaction.counterparty_name # <<>>
         /\ transaction.counterparty_name[1] # <<>>
         /\ LET text == IF config.case_sensitive
                        THEN transaction.counterparty_name[1]
                        ELSE Upper(transaction.counterparty_name[1])
            IN \E keyword \in config.royal_canin_keywords :
                  KeywordIn(IF config.case_sensitive THEN keyword
                            ELSE Upper(<<keyword>>)[1], text)
      \/ LET text == IF config.case_sensitive THEN transaction.description
                     ELSE Upper(transaction.description)
         IN \E keyword \in config.royal_canin_keywords :
               KeywordIn(IF config.case_sensitive THEN keyword
                         ELSE Upper(<<keyword>>)[1], text))

\* transaction_filter.py:81-91
HasSipNumber(config, transaction) ==
    IF ~HasAttr(transaction, "remittance_info") THEN AttributeError
    ELSE PyBool(
      \/ /\ transaction.remittance_info # <<>>
         /\ transaction.remittance_info[1] # <<>>
         /\ SipSearch(config.sip_pattern, transaction.remittance_info[1])
      \/ SipSearch(config.sip_pattern, transaction.description))

\* the options are read although the filter is disabled
ShouldIncludeTransactionNoBypass(config, transaction) ==
    LET has_royal_canin == HasRoyalCanin(config, transaction)
        has_sip_number == HasSipNumber(config, transaction)
    IN IF IsError(has_royal_canin) THEN has_royal_canin
       ELSE IF IsError(has_sip_number) THEN has_sip_number
       ELSE IF config.require_both
            THEN PyBool(has_royal_canin.bool /\ has_sip_number.bool)
            ELSE PyBool(has_royal_canin.bool \/ has_sip_number.bool)

\* transaction_filter.py:32-60
ShouldIncludeTransaction(config, transaction) ==
    IF ~config.enabled THEN PyBool(TRUE)
    ELSE LET has_royal_canin == HasRoyalCanin(config, transaction)
             has_sip_number == HasSipNumber(config, transaction)
         IN IF IsError(has_royal_canin) THEN has_royal_canin
            ELSE IF IsError(has_sip_number) THEN has_sip_number
            ELSE IF config.require_both
                 THEN PyBool(has_royal_canin.bool /\ has_sip_number.bool)
                 ELSE PyBool(has_royal_canin.bool \/ has_sip_number.bool)

\* The settings a TransactionFilter can be constructed from
\* (transaction_filter.py:22-28).
FilterConfigs ==
    [enabled : BOOLEAN,
     royal_canin_keywords : {{"ROYAL CANIN"}, {"Royal Canin"}, {}},
     sip_pattern : {"SIP\\d{7,9}", "sip\\d{7,9}"},
     require_both : BOOLEAN,
     case_sensitive : BOOLEAN]

\* obj.counterparty_name = ..., obj.remittance_info = ...,
\* obj.counterparty_iban = ... on an object made by the constructor: the
\* dataclass is neither frozen nor slotted.
SetSepaAttributes(obj, name, remittance, iban) ==
    [f \in DOMAIN obj \cup SepaFields |->
        IF f = "counterparty_name" THEN name
        ELSE IF f = "remittance_info" THEN remittance
        ELSE IF f = "counterparty_iban" THEN iban
        ELSE obj[f]]

FilterDescriptions ==
    { <<"ROYAL CANIN", " ", "SIP1234567">>,
      <<"royal canin", " ", "sip1234567">>,
      <<"ROYAL CANIN">>,
      <<"x">> }

\* Transactions as the constructor makes them
PlainRecords ==
    { TransactionInit([amount |-> Dec(-12550, 2), description |-> d,
                       date |-> 1, reference |-> <<"TXN001">>]) :
        d \in FilterDescriptions }

\* Transactions that were given the SEPA attributes afterwards
SepaRecords ==
    { SetSepaAttributes(t, name, remittance, <<>>) :
        t \in PlainRecords,
        name \in {<<>>, << <<"ROYAL CANIN">> >>, << <<"royal canin">> >>},
        remittance \in {<<>>, << <<"SIP1234567">> >>,
                        << <<"sip1234567">> >>} }

FilterRecords == PlainRecords \cup SepaRecords

\* A call of should_include_transaction on a filter with the settings of
\* filter_config.
ShouldIncludeCall ==
    /\ \E transaction \in FilterRecords :
         filter_call' =
            << [transaction |-> transaction,
                result |-> ShouldIncludeTransaction(filter_config,
                                                    transaction)] >>
    /\ UNCHANGED filter_config
    /\ UNCHANGED <<matcher_vars, parser_vars, upload_vars, models_vars,
                   download_vars>>

----------------------------------------------------------------------------
(* mt940_parser.py *)

\* A narrative is a sequence of words; "/" is the delimiter of the SEPA
\* sub-fields, " " is white space, every other word has neither.

RECURSIVE StripLeft(_)
StripLeft(text) ==
    IF text # <<>> /\ text[1] = " " THEN StripLeft(Tail(text)) ELSE text

RECURSIVE StripRight(_)
StripRight(text) ==
    IF text # <<>> /\ text[Len(text)] = " "
    THEN StripRight(SubSeq(text, 1, Len(text) - 1)) ELSE text

\* str.strip()
Strip(text) == StripRight(StripLeft(text))

\* ' '.join(parts)
RECURSIVE JoinSpace(_)
JoinSpace(parts) ==
    IF parts = <<>> THEN <<>>
    ELSE IF Len(parts) = 1 THEN parts[1]
    ELSE parts[1] \o <<" ">> \o JoinSpace(Tail(parts))

\* re.search(r'/TAG/([^/]+)/', description) and group(1).strip(): <<>> when
\* nothing matches, <<value>> otherwise (mt940_parser.py:167-179)
SearchSepaField(tag, description) ==
    LET n == Len(description)
        \* the "/" that ends a value starting at position v, or 0
        ValueEnd(v) ==
            IF \E q \in v..n : description[q] = "/"
            THEN CHOOSE q \in v..n :
                    /\ description[q] = "/"
                    /\ \A q2 \in v..(q - 1) : description[q2] # "/"
            ELSE 0
        starts == { b \in 1..(n - 4) :
                      /\ description[b] = "/"
                      /\ description[b + 1] = tag
                      /\ description[b + 2] = "/"
                      /\ ValueEnd(b + 3) > b + 3 }
    IN IF starts = {} THEN <<>>
       ELSE LET b == CHOOSE x \in starts : \A y \in starts : x <= y
            IN << Strip(SubSeq(description, b + 3, ValueEnd(b + 3) - 1)) >>

\* _extract_sepa_fields (mt940_parser.py:149-185)
ExtractSepaFields(description) ==
    [name |-> SearchSepaField("NAME", description),
     remittance |-> SearchSepaField("REMI", description),
     iban |-> SearchSepaField("IBAN", description)]

\* abs(hash(str(mt940_transaction))) % 10000: the hash of a str is salted
\* with a seed the interpreter draws when it starts.
PyHash(seed, raw) ==
    LET h == (raw.date * 3 + raw.amount[1].v + seed * 7) % 10000
    IN IF h < 0 THEN -h ELSE h

\* format(h, '04d') on the hash values of the model
HashStr(h) == IF h % 2 = 0 THEN "0000" ELSE "0001"

\* mt940_parser.py:103
FallbackReference(seed, raw) ==
    <<"TXN_", DateStrCompact(raw.date), "_", HashStr(PyHash(seed, raw))>>

NonEmpty(parts) == SelectSeq(parts, LAMBDA x : x # <<>>)

\* _convert_mt940_transaction (mt940_parser.py:93-147): <<>> for None.  raw
\* is the data of the mt940 library's transaction; amount is <<>> when the
\* transaction line gave the library no amount.
ConvertMt940Transaction(seed, raw) ==
    IF raw.amount = <<>> THEN <<>>
    ELSE
      LET amount == raw.amount[1]
          date == raw.date
          reference == IF raw.transaction_reference # <<>>
                       THEN raw.transaction_reference
                       ELSE FallbackReference(seed, raw)
          joined == Strip(JoinSpace(NonEmpty(
                       <<raw.transaction_details, raw.purpose,
                         raw.extra_details>>)))
          description == IF joined = <<>>
                         THEN <<"Transaction", " ">> \o reference
                         ELSE joined
          sepa_fields == ExtractSepaFields(description)
          transaction == TransactionInit(
              [amount |-> amount, description |-> description,
               date |-> date, reference |-> reference, account |-> None,
               counterparty_name |-> sepa_fields.name,
               remittance_info |-> sepa_fields.remittance,
               counterparty_iban |-> sepa_fields.iban])
      IN IF IsError(transaction) THEN <<>> ELSE <<transaction>>

\* what parse() raised or returned, with the numbers of its closing log line
ParseReturn(seed, value, log) == [seed |-> seed, transactions |-> value,
                                 log |-> log]
ParseRaise(seed, error) == [seed |-> seed, error |-> error]

\* parse(), up to the start of the loops (mt940_parser.py:42-63)
BeginParse ==
    /\ parse_pc = "idle"
    /\ Len(parse_results) < MaxParses
    /\ all_transactions' = <<>>
    /\ unique_transactions' = {}
    /\ filtered_transactions' = <<>>
    /\ IF file.status = "missing"
       THEN /\ parse_results' = Append(parse_results,
                                   ParseRaise(hash_seed, "FileNotFoundError"))
            /\ UNCHANGED <<parse_pc, total_raw_transactions,
                           duplicates_found>>
       ELSE IF file.status = "corrupt"
       THEN /\ parse_results' = Append(parse_results,
                                   ParseRaise(hash_seed, "Exception"))
            /\ UNCHANGED <<parse_pc, total_raw_transactions,
                           duplicates_found>>
       ELSE /\ total_raw_transactions' = 0
            /\ duplicates_found' = 0
            /\ parse_pc' = "statements"
            /\ UNCHANGED parse_results
    /\ statement_idx' = 1
    /\ txn_idx' = 1
    /\ UNCHANGED <<file, hash_seed>>
    /\ UNCHANGED <<matcher_vars, filter_vars, upload_vars, models_vars,
                   download_vars>>

\* the head of the outer loop (mt940_parser.py:65-68)
BeginStatement ==
    /\ parse_pc = "statements"
    /\ statement_idx <= Len(file.statements)
    /\ total_raw_transactions' =
          total_raw_transactions + Len(file.statements[statement_idx])
    /\ txn_idx' = 1
    /\ parse_pc' = "transactions"
    /\ UNCHANGED <<file, hash_seed, statement_idx, all_transactions,
                   unique_transactions, filtered_transactions,
                   duplicates_found, parse_results>>
    /\ UNCHANGED <<matcher_vars, filter_vars, upload_vars, models_vars,
                   download_vars>>

\* one iteration of the inner loop (mt940_parser.py:70-85)
ParseTransaction ==
    /\ parse_pc = "transactions"
    /\ txn_idx <= Len(file.statements[statement_idx])
    /\ LET mt940_transaction == file.statements[statement_idx][txn_idx]
           converted == ConvertMt940Transaction(hash_seed, mt940_transaction)
           transaction == converted[1]
           unique_key == UniqueKey(transaction)
           included == ShouldIncludeTransaction(filter_config, transaction)
       IN IF converted = <<>>
          THEN /\ txn_idx' = txn_idx + 1
               /\ UNCHANGED <<unique_transactions, all_transactions,
                              filtered_transactions, duplicates_found,
                              parse_pc, parse_results>>
          ELSE IF unique_key \in unique_transactions
          THEN /\ duplicates_found' = duplicates_found + 1
               /\ txn_idx' = txn_idx + 1
               /\ UNCHANGED <<unique_transactions, all_transactions,
                              filtered_transactions, parse_pc,
                              parse_results>>
          ELSE /\ unique_transactions' =
                     unique_transactions \cup {unique_key}
               /\ all_transactions' = Append(all_transactions, transaction)
               /\ IF IsError(included)
                  \* the filter's exception leaves parse (line 81 is outside
                  \* every try block)
                  THEN /\ parse_results' = Append(parse_results,
                              ParseRaise(hash_seed, included.error))
                       /\ parse_pc' = "idle"
                       /\ UNCHANGED <<filtered_transactions, txn_idx>>
                  ELSE /\ filtered_transactions' =
                             IF included.bool
                             THEN Append(filtered_transactions, transaction)
                             ELSE filtered_transactions
                       /\ txn_idx' = txn_idx + 1
                       /\ UNCHANGED <<parse_pc, parse_results>>
               /\ UNCHANGED duplicates_found
    /\ UNCHANGED <<file, hash_seed, statement_idx, total_raw_transactions>>
    /\ UNCHANGED <<matcher_vars, filter_vars, upload_vars, models_vars,
                   download_vars>>

\* the inner loop is exhausted: on to the next statement
EndStatement ==
    /\ parse_pc = "transactions"
    /\ txn_idx > Len(file.statements[statement_idx])
    /\ statement_idx' = statement_idx + 1
    /\ parse_pc' = "statements"
    /\ UNCHANGED <<file, hash_seed, txn_idx, all_transactions,
                   unique_transactions, filtered_transactions,
                   total_raw_transactions, duplicates_found, parse_results>>
    /\ UNCHANGED <<matcher_vars, filter_vars, upload_vars, models_vars,
                   download_vars>>

\* mt940_parser.py:87-91
ReturnParsed ==
    /\ parse_pc = "statements"
    /\ statement_idx > Len(file.statements)
    /\ parse_results' = Append(parse_results,
          ParseReturn(hash_seed, filtered_transactions,
             [statements |-> Len(file.statements),
              raw |-> total_raw_transactions,
              unique |-> Len(all_transactions),
              duplicates |-> duplicates_found,
              filtered |-> Len(filtered_transactions),
              filtered_out |->
                  Len(all_transactions) - Len(filtered_transactions)]))
    /\ parse_pc' = "idle"
    /\ UNCHANGED <<file, hash_seed, statement_idx, txn_idx, all_transactions,
                   unique_transactions, filtered_transactions,
                   total_raw_transactions, duplicates_found>>
    /\ UNCHANGED <<matcher_vars, filter_vars, upload_vars, models_vars,
                   download_vars>>

\* The program is started again: the new interpreter draws another salt.
RestartInterpreter ==
    /\ parse_pc = "idle"
    /\ parse_results # <<>>
    /\ Len(parse_results) < MaxParses
    /\ hash_seed' \in HashSeeds \ {hash_seed}
    /\ UNCHANGED <<file, parse_pc, statement_idx, txn_idx, all_transactions,
                   unique_transactions, filtered_transactions,
                   total_raw_transactions, duplicates_found, parse_results>>
    /\ UNCHANGED <<matcher_vars, filter_vars, upload_vars, models_vars,
                   download_vars>>

----------------------------------------------------------------------------
(* The file system *)

\* A path is the sequence of its components; fs maps the paths that exist to
\* what is there.
Dir == [kind |-> "dir"]
FileOf(content) == [kind |-> "file", content |-> content]

\* The system's temporary directory exists; nothing else does.
EmptyDisk == [p \in {<<"tmp">>} |-> Dir]

\* os.path.dirname
Parent(path) == SubSeq(path, 1, Len(path) - 1)

IsPrefix(p, q) == Len(p) <= Len(q) /\ SubSeq(q, 1, Len(p)) = p

\* os.makedirs(path, exist_ok=True)
MakeDirs(f, path) ==
    [q \in DOMAIN f \cup { SubSeq(path, 1, k) : k \in 1..Len(path) } |->
        IF q \in DOMAIN f THEN f[q] ELSE Dir]

\* open(path, 'w') and write: the file is created or replaced
WriteFile(f, path, content) ==
    [q \in DOMAIN f \cup {path} |->
        IF q = path THEN FileOf(content) ELSE f[q]]

\* shutil.rmtree(path)
RmTree(f, path) ==
    [q \in { r \in DOMAIN f : ~IsPrefix(path, r) } |-> f[q]]

----------------------------------------------------------------------------
(* mt940_generator.py *)

\* strftime('%y%m%d') on the dates of the model
DateStrShort(date) == IF date = 1 THEN "240115" ELSE "240116"

\* f"{amount:.2f}".replace('.', ','): two fraction digits, whatever the
\* Decimal had
FormatAmount(amount) == Dec(amount.v, 2)

\* abs(Decimal)
DecimalAbs(a) == Dec(IF a.v < 0 THEN -a.v ELSE a.v, a.d)

\* the transactions keep the order of the match list
NoSortByDate(ts) == ts

\* sorted(matched_transactions, key=lambda t: t.date): stable
RECURSIVE SortByDate(_)
SortByDate(ts) ==
    IF ts = <<>> THEN <<>>
    ELSE LET rest == SortByDate(SubSeq(ts, 1, Len(ts) - 1))
             last == ts[Len(ts)]
             n == Cardinality({ k \in DOMAIN rest :
                                  rest[k].date <= last.date })
         IN SubSeq(rest, 1, n) \o <<last>> \o SubSeq(rest, n + 1, Len(rest))

\* _generate_header (mt940_generator.py:98-113)
GenerateHeader ==
    <<"ABNANL2A", "940", "ABNANL2A", ":20:MATCHED TRANSACTIONS",
      ":25:438661141", ":28:yymm/1">>

\* the balance is marked as credit whatever is_debit says
FormatBalanceCredit(date_str, amount, is_debit) ==
    [debit_credit |-> "C", date |-> date_str,
     currency |-> "EUR", amount |-> FormatAmount(amount)]

\* _format_balance (mt940_generator.py:203-218)
FormatBalance(date_str, amount, is_debit) ==
    [debit_credit |-> IF is_debit THEN "D" ELSE "C", date |-> date_str,
     currency |-> "EUR", amount |-> FormatAmount(amount)]

RECURSIVE SumTransactionAmounts(_)
\* sum(t.amount for t in transactions)
SumTransactionAmounts(ts) ==
    IF ts = <<>> THEN PyInt(0)
    ELSE DecimalAdd(SumTransactionAmounts(SubSeq(ts, 1, Len(ts) - 1)),
                    ts[Len(ts)].amount)

\* _calculate_balances (mt940_generator.py:171-201)
CalculateBalances(ts) ==
    IF ts = <<>>
    THEN [opening |-> FormatBalance("991231", Dec(0, 2), FALSE),
          closing |-> FormatBalance("991231", Dec(0, 2), FALSE)]
    ELSE LET balance_date == DateStrShort(ts[1].date)
             total_amount == SumTransactionAmounts(ts)
             opening_amount == Dec(0, 2)
             closing_amount == DecimalAdd(opening_amount, total_amount)
         IN [opening |-> FormatBalance(balance_date, opening_amount, FALSE),
             closing |-> FormatBalance(balance_date,
                                       DecimalAbs(closing_amount),
                                       closing_amount.v < 0)]

\* the truth value of an optional string: neither None nor ''
Truthy(opt) == opt # <<>> /\ opt[1] # <<>>

\* _generate_detail_line (mt940_generator.py:143-169): the line after the
\* tag ":86:", as a narrative of words
GenerateDetailLine(transaction) ==
    IF ~HasAttr(transaction, "counterparty_name") THEN AttributeError
    ELSE IF ~HasAttr(transaction, "remittance_info") THEN AttributeError
    ELSE IF ~HasAttr(transaction, "counterparty_iban") THEN AttributeError
    ELSE [narrative |->
            <<"/", "TRTP", "/", "SEPA INCASSO BEDRIJVEN DOORLOPEND">>
            \o (IF Truthy(transaction.counterparty_name)
                THEN <<"/", "NAME", "/">> \o transaction.counterparty_name[1]
                ELSE <<>>)
            \o (IF Truthy(transaction.remittance_info)
                THEN <<"/", "REMI", "/">> \o transaction.remittance_info[1]
                ELSE <<>>)
            \o (IF Truthy(transaction.counterparty_iban)
                THEN <<"/", "IBAN", "/">> \o transaction.counterparty_iban[1]
                ELSE <<>>)
            \o (IF transaction.reference # <<>>
                THEN <<"/", "EREF", "/">> \o transaction.reference
                ELSE <<>>)]

\* _generate_transaction_lines (mt940_generator.py:115-141)
GenerateTransactionLines(transaction) ==
    LET detail_line == GenerateDetailLine(transaction)
    IN IF IsError(detail_line) THEN detail_line
       ELSE [transaction_line |->
               [date |-> DateStrShort(transaction.date),
                entry_date |-> DateStrShort(transaction.date),
                debit_credit |-> IF transaction.amount.v < 0 THEN "D"
                                 ELSE "C",
                amount |-> FormatAmount(DecimalAbs(transaction.amount)),
                type |-> "N249",
                reference |-> IF transaction.reference # <<>>
                              THEN transaction.reference
                              ELSE <<"NONREF">>],
             detail_line |-> detail_line.narrative]

\* _build_mt940_content (mt940_generator.py:68-96)
BuildMt940Content(ts) ==
    LET balances == CalculateBalances(ts)
        lines == [k \in DOMAIN ts |-> GenerateTransactionLines(ts[k])]
    IN IF \E k \in DOMAIN ts : IsError(lines[k])
       THEN lines[CHOOSE k \in DOMAIN ts :
                    /\ IsError(lines[k])
                    /\ \A l \in 1..(k - 1) : ~IsError(lines[l])]
       ELSE [header |-> GenerateHeader,
             opening_balance |-> balances.opening,
             lines |-> lines,
             closing_balance |-> balances.closing]

\* what a write that failed part-way leaves in the file
Truncated == [header |-> GenerateHeader]

\* the file is made although there are no matches
GenerateFromMatchesUnvalidated(pairs, output_path, f, write) ==
    LET content == BuildMt940Content(SortByDate(
                      [k \in DOMAIN pairs |->
                          pairs[k].transaction]))
    IN [result |-> [path |-> output_path],
        fs |-> WriteFile(MakeDirs(f, Parent(output_path)), output_path,
                         content)]

\* generate_from_matches (mt940_generator.py:24-66) on the file system f,
\* where writing the file does what `write` says.  The result is the error
\* raised or [path |-> the path returned].
GenerateFromMatches(pairs, output_path, f, write) ==
    IF pairs = <<>> THEN [result |-> ValueError, fs |-> f]
    ELSE
      LET matched_transactions == [k \in DOMAIN pairs |->
                                      pairs[k].transaction]
          sorted_transactions == SortByDate(matched_transactions)
          mt940_content == BuildMt940Content(sorted_transactions)
          made == MakeDirs(f, Parent(output_path))
      IN IF IsError(mt940_content)
         THEN [result |-> mt940_content, fs |-> f]
         ELSE IF write = "open_fails"
         THEN [result |-> IOError, fs |-> made]
         ELSE IF write = "write_fails"
         THEN [result |-> IOError,
               fs |-> WriteFile(made, output_path, Truncated)]
         ELSE [result |-> [path |-> output_path],
               fs |-> WriteFile(made, output_path, mt940_content)]

----------------------------------------------------------------------------
(* upload_data_generator.py *)

\* dict[key] = value
Put(dict, key, value) ==
    [x \in DOMAIN dict \cup {key} |-> IF x = key THEN value ELSE dict[x]]

\* f"{invoice_number}.pdf" on the invoice numbers of the model
PdfName(invoice_number) ==
    IF invoice_number = <<"S", "1">> THEN "S1.pdf"
    ELSE IF invoice_number = <<"s", "2">> THEN "s2.pdf"
    ELSE "1.pdf"

\* _safe_copy_file (upload_data_generator.py:258-292) for a source whose
\* reading goes as outcome says, on a thread of a platform that has SIGALRM
\* or not.  With SIGALRM, signal.signal is called first (273-275); off the
\* main thread it raises ValueError, which line 284 turns into IOError
\* before shutil.copy2 (278) is reached.  Without SIGALRM no alarm is set
\* and a slow copy runs to its end.
SafeCopyFile(outcome, sigalrm, thread) ==
    IF sigalrm /\ thread # "main" THEN "ioerror"
    ELSE IF ~sigalrm /\ outcome = "timeout" THEN "ok"
    ELSE outcome

\* What the loop of _copy_matched_pdfs sees of each source on a thread: a
\* file that is not there is skipped before _safe_copy_file (158-160).
CopyOutcomesOn(sources, sigalrm, thread) ==
    [p \in DOMAIN sources |->
        IF sources[p] = "missing" THEN "missing"
        ELSE SafeCopyFile(sources[p], sigalrm, thread)]

\* every invoice number is entered in the map, copied or not
RECURSIVE CopyLoopMapsAll(_, _, _, _, _)
CopyLoopMapsAll(pairs, pdfs_dir, f, sources, n) ==
    IF n = 0 THEN [pdf_files |-> <<>>, fs |-> f]
    ELSE LET done == CopyLoopMapsAll(pairs, pdfs_dir, f, sources, n - 1)
             invoice == pairs[n].invoice
             dest_pdf_path == Append(pdfs_dir, PdfName(invoice.invoice_number))
         IN [pdf_files |-> Put(done.pdf_files, invoice.invoice_number,
                               dest_pdf_path),
             fs |-> IF sources[invoice.file_path] = "ok"
                    THEN WriteFile(done.fs, dest_pdf_path,
                                   [pdf |-> invoice.file_path])
                    ELSE done.fs]

\* The loop of _copy_matched_pdfs (upload_data_generator.py:150-178) over the
\* first n matches.  sources says what reading each source does:
\*   "missing"  os.path.exists is false: the match is skipped (158-160);
\*   "ioerror"  shutil.copy2 raises before it wrote anything;
\*   "timeout"  the alarm of _safe_copy_file goes off while copy2 is writing;
\*   "ok"       the copy is made and entered in pdf_files (168-169).
\* _safe_copy_file turns both failures into IOError (284-286), which the loop
\* catches (173-178).
RECURSIVE CopyLoop(_, _, _, _, _)
CopyLoop(pairs, pdfs_dir, f, sources, n) ==
    IF n = 0 THEN [pdf_files |-> <<>>, fs |-> f]
    ELSE LET done == CopyLoop(pairs, pdfs_dir, f, sources, n - 1)
             invoice == pairs[n].invoice
             invoice_number == invoice.invoice_number
             source_pdf_path == invoice.file_path
             dest_pdf_path == Append(pdfs_dir, PdfName(invoice_number))
         IN IF sources[source_pdf_path] = "missing" THEN done
            ELSE IF sources[source_pdf_path] = "ioerror" THEN done
            ELSE IF sources[source_pdf_path] = "timeout"
            THEN [pdf_files |-> done.pdf_files,
                  fs |-> WriteFile(done.fs, dest_pdf_path,
                                   [partial |-> source_pdf_path])]
            ELSE [pdf_files |-> Put(done.pdf_files, invoice_number,
                                    dest_pdf_path),
                  fs |-> WriteFile(done.fs, dest_pdf_path,
                                   [pdf |-> source_pdf_path])]

\* _copy_matched_pdfs (upload_data_generator.py:133-181)
CopyMatchedPdfs(pairs, temp_dir, f, sources) ==
    LET pdfs_dir == Append(temp_dir, "pdfs")
    IN CopyLoop(pairs, pdfs_dir, MakeDirs(f, pdfs_dir), sources, Len(pairs))

RECURSIVE CreateTransactionMappingKeepsFirst(_)
\* an entry that is there is not replaced
CreateTransactionMappingKeepsFirst(pairs) ==
    IF pairs = <<>> THEN <<>>
    ELSE LET mapping == CreateTransactionMappingKeepsFirst(
                            SubSeq(pairs, 1, Len(pairs) - 1))
             transaction_ref == pairs[Len(pairs)].transaction.reference
         IN IF transaction_ref \in DOMAIN mapping THEN mapping
            ELSE Put(mapping, transaction_ref,
                     pairs[Len(pairs)].invoice.invoice_number)

RECURSIVE CreateTransactionMapping(_)
\* _create_transaction_mapping (upload_data_generator.py:183-202)
CreateTransactionMapping(pairs) ==
    IF pairs = <<>> THEN <<>>
    ELSE Put(CreateTransactionMapping(SubSeq(pairs, 1, Len(pairs) - 1)),
             pairs[Len(pairs)].transaction.reference,
             pairs[Len(pairs)].invoice.invoice_number)

\* the statement file is written beside the working directory
GenerateMt940FileBeside(pairs, temp_dir, f, write) ==
    GenerateFromMatches(pairs,
                        Append(Parent(temp_dir), "matched_transactions.STA"),
                        f, write)

\* _generate_mt940_file (upload_data_generator.py:115-131)
GenerateMt940File(pairs, temp_dir, f, write) ==
    GenerateFromMatches(pairs, Append(temp_dir, "matched_transactions.STA"),
                        f, write)

\* the directory is kept
CleanupTempDirectoryKeeps(f, temp_dir, rm_ok) == f

\* only the directory and what lies directly in it are deleted
CleanupTempDirectoryShallow(f, temp_dir, rm_ok) ==
    IF temp_dir \in DOMAIN f /\ rm_ok
    THEN [q \in { r \in DOMAIN f :
                    ~(IsPrefix(temp_dir, r) /\ Len(r) <= Len(temp_dir) + 1) }
            |-> f[q]]
    ELSE f

\* _cleanup_temp_directory (upload_data_generator.py:204-216): an rmtree that
\* fails is logged and nothing else
CleanupTempDirectory(f, temp_dir, rm_ok) ==
    IF temp_dir \in DOMAIN f /\ rm_ok THEN RmTree(f, temp_dir) ELSE f

\* UploadDataPackage (upload_data_generator.py:20-36)
UploadDataPackage(mt940_file_path, pdf_files, transaction_mapping, total_matches, temp_directory) ==
    [mt940_file_path |-> mt940_file_path, pdf_files |-> pdf_files,
     transaction_mapping |-> transaction_mapping,
     total_matches |-> total_matches, temp_directory |-> temp_directory]

\* the directory tempfile.mkdtemp makes under temp_base_dir, or under the
\* system's temporary directory when temp_base_dir is None
TempDir(temp_base_dir, name) ==
    Append(IF temp_base_dir # <<>> THEN temp_base_dir[1] ELSE <<"tmp">>, name)

\* prepare_upload_data (upload_data_generator.py:53-113) on the file system
\* f; name is the name mkdtemp draws.  temp_dir is <<>> when the call made no
\* working directory.
PrepareUploadData(pairs, temp_base_dir, name, f, sources, write, rm_ok) ==
    IF pairs = <<>>
    THEN [result |-> ValueError, fs |-> f, temp_dir |-> <<>>]
    ELSE
      LET based == IF temp_base_dir # <<>>
                   THEN MakeDirs(f, temp_base_dir[1]) ELSE f
          temp_dir == TempDir(temp_base_dir, name)
          created == MakeDirs(based, temp_dir)
          generated == GenerateMt940File(pairs, temp_dir, created, write)
          copied == CopyMatchedPdfs(pairs, temp_dir, generated.fs, sources)
      IN IF IsError(generated.result)
         THEN [result |-> generated.result,
               fs |-> CleanupTempDirectory(generated.fs, temp_dir, rm_ok),
               temp_dir |-> <<temp_dir>>]
         ELSE [result |-> UploadDataPackage(
                              generated.result.path, copied.pdf_files,
                              CreateTransactionMapping(pairs), Len(pairs),
                              temp_dir),
               fs |-> copied.fs,
               temp_dir |-> <<temp_dir>>]

\* Inputs of the generator and the assembler

\* The matched records: Transactions as the constructor makes them, and
\* Transactions given SEPA attributes afterwards.  Every description names
\* every invoice of UploadInvoices.
MatchedRecord(amount, date, reference) ==
    TransactionInit([amount |-> amount,
                     description |-> <<"S", "1", "s", "2">>,
                     date |-> date, reference |-> reference])

UploadRecords ==
    { MatchedRecord(Dec(-12550, 2), 2, <<"TXN001">>),
      SetSepaAttributes(MatchedRecord(Dec(-12550, 2), 2, <<"TXN001">>),
                        << <<"ROYAL CANIN">> >>, << <<"SIP1234567">> >>,
                        << <<"NL01">> >>),
      SetSepaAttributes(MatchedRecord(Dec(10050, 1), 1, <<"TXN002">>),
                        << <<"ROYAL CANIN">> >>, <<>>, <<>>) }

RoundTripRecords ==
    UploadRecords
    \cup { SetSepaAttributes(MatchedRecord(Dec(10050, 1), 1, <<"TXN002">>),
                             <<>>, <<>>, <<>>) }

UploadInvoices ==
    << InvoiceInit(<<"S", "1">>, "a.pdf", <<>>),
       InvoiceInit(<<"s", "2">>, "b.pdf", <<>>) >>

\* The match lists a summary can hold: no invoice in two matches.
Summaries(records) ==
    UNION { { [k \in 1..len |->
                 MatchResultInit(WithId(ts[k], k),
                                 WithId(UploadInvoices[is[k]], is[k]),
                                 1, 0,
                                 <<UploadInvoices[is[k]].invoice_number>>)] :
              ts \in [1..len -> records],
              is \in { g \in [1..len -> DOMAIN UploadInvoices] :
                         \A a, b \in 1..len : a # b => g[a] # g[b] } } :
            len \in 0..MaxMatches }

SourcePaths(pairs) == { pairs[k].invoice.file_path : k \in DOMAIN pairs }

CopyOutcomes == {"ok", "missing", "ioerror", "timeout"}

WriteOutcomes == {"ok", "write_fails"}

\* The argument temp_base_dir: None or a directory
BaseDirs == { <<>>, << <<"out">> >> }

\* The names mkdtemp can draw
DirNames == {"snelstart_upload_a", "snelstart_upload_b"}

\* The argument output_path of a direct generate_from_matches call
OutputPath == <<"out", "matched.STA">>

\* The disk before the first call: empty, or with the statement file of an
\* earlier run at OutputPath.  The earlier file is modelled for the summary
\* without matches, the case in which no call may touch it.
InitialDisks(pairs) ==
    IF pairs # <<>> THEN {EmptyDisk}
    ELSE { EmptyDisk,
           WriteFile(MakeDirs(EmptyDisk, Parent(OutputPath)), OutputPath,
                     Truncated) }

\* A call of generate_from_matches(summary.matched_pairs, OutputPath)
GenerateFromMatchesCall ==
    /\ Len(generate_log) + Len(upload_log) + Len(cleanup_log) < MaxUploadSteps
    /\ Len(generate_log) + Len(upload_log) < MaxUploadCalls
    /\ LET generated == GenerateFromMatches(summary_pairs, OutputPath, fs,
                                            disk_write)
       IN /\ fs' = generated.fs
          /\ generate_log' = Append(generate_log,
                                    [output_path |-> OutputPath,
                                     result |-> generated.result])
    /\ UNCHANGED <<summary_pairs, source_files, disk_write, rmtree_ok,
                   upload_log, cleanup_log>>
    /\ UNCHANGED <<matcher_vars, parser_vars, filter_vars, models_vars,
                   download_vars>>

\* datetime.strptime(text, '%y%m%d') on the dates of the model
ParseDateShort(text) == IF text = "240115" THEN 1 ELSE 2

\* What data.get('transaction_reference') of a transaction read back can
\* hold for line 101 of the parser: nothing with a data attribute, the
\* statement's :20: field, or the reference of the :61: line.
ReadBackReferences(transaction_line) ==
    { <<>>, <<"MATCHED TRANSACTIONS">>, transaction_line.reference }

\* mt940.parse() on the text generate_from_matches wrote: one statement, one
\* transaction for each :61:/:86: pair, the amount signed by the D/C mark
ReadStatement(content, references) ==
    << [k \in DOMAIN content.lines |->
          LET transaction_line == content.lines[k].transaction_line
          IN RawTransaction(
                << Dec(IF transaction_line.debit_credit = "D"
                       THEN -transaction_line.amount.v
                       ELSE transaction_line.amount.v,
                       transaction_line.amount.d) >>,
                ParseDateShort(transaction_line.date),
                references[k],
                content.lines[k].detail_line)] >>

\* The file a generate_from_matches call wrote is handed to MT940Parser.
OpenGenerated ==
    /\ parse_pc = "idle"
    /\ generate_log # <<>>
    /\ ~IsError(generate_log[Len(generate_log)].result)
    /\ "origin" \notin DOMAIN file
    /\ LET path == generate_log[Len(generate_log)].result.path
           content == fs[path].content
       IN /\ "lines" \in DOMAIN content
          /\ \E references \in
                  [DOMAIN content.lines ->
                     UNION { ReadBackReferences(
                                content.lines[k].transaction_line) :
                             k \in DOMAIN content.lines }] :
               /\ \A k \in DOMAIN content.lines :
                     references[k] \in ReadBackReferences(
                                          content.lines[k].transaction_line)
               /\ file' = [status |-> "ok",
                           statements |-> ReadStatement(content, references),
                           origin |-> path]
    /\ UNCHANGED <<hash_seed, parse_pc, statement_idx, txn_idx,
                   all_transactions, unique_transactions,
                   filtered_transactions, total_raw_transactions,
                   duplicates_found, parse_results>>
    /\ UNCHANGED <<matcher_vars, filter_vars, upload_vars, models_vars,
                   download_vars>>

\* A call of prepare_upload_data(summary, temp_base_dir) on the main
\* thread.  mkdtemp draws a name that is not taken.
PrepareUploadDataCall ==
    /\ Len(generate_log) + Len(upload_log) + Len(cleanup_log) < MaxUploadSteps
    /\ Len(generate_log) + Len(upload_log) < MaxUploadCalls
    /\ \E temp_base_dir \in BaseDirs, name \in DirNames :
         /\ TempDir(temp_base_dir, name) \notin DOMAIN fs
         /\ LET r == PrepareUploadData(summary_pairs, temp_base_dir, name,
                                       fs,
                                       CopyOutcomesOn(source_files,
                                                      has_sigalrm, "main"),
                                       disk_write, rmtree_ok)
            IN /\ fs' = r.fs
               /\ upload_log' = Append(upload_log,
                                       [temp_base_dir |-> temp_base_dir,
                                        temp_dir |-> r.temp_dir,
                                        result |-> r.result])
    /\ UNCHANGED <<summary_pairs, source_files, disk_write, rmtree_ok,
                   generate_log, cleanup_log>>
    /\ UNCHANGED <<matcher_vars, parser_vars, filter_vars, models_vars,
                   download_vars>>

\* cleanup_upload_package (upload_data_generator.py:218-226) on a package an
\* earlier call returned, whether or not it was cleaned up before
CleanupUploadPackageCall ==
    /\ Len(generate_log) + Len(upload_log) + Len(cleanup_log) < MaxUploadSteps
    /\ Len(cleanup_log) < MaxCleanupCalls
    /\ \E c \in DOMAIN upload_log :
         /\ ~IsError(upload_log[c].result)
         /\ fs' = CleanupTempDirectory(fs,
                                       upload_log[c].result.temp_directory,
                                       rmtree_ok)
         /\ cleanup_log' = Append(cleanup_log,
                                  upload_log[c].result.temp_directory)
    /\ UNCHANGED <<summary_pairs, source_files, disk_write, rmtree_ok,
                   generate_log, upload_log>>
    /\ UNCHANGED <<matcher_vars, parser_vars, filter_vars, models_vars,
                   download_vars>>

----------------------------------------------------------------------------
(* models.py: direct constructor calls *)

\* The arguments of the constructor calls: the values of the matcher's
\* inputs and the empty, zero and out-of-range values beside them.
ModelDescriptions == Descriptions \cup { <<>> }
ModelReferences == { <<>>, <<"TXN001">> }
ModelDates == {1, 2}
ModelInvoiceNumbers == InvoiceNumbers \cup { <<>> }
ModelFilePaths == {"", "a.pdf"}
ModelInvoiceAmounts == { <<>>, <<-1>>, <<0>>, <<1>> }
ModelConfidenceScores == {-1, 0, 1, 2}
ModelAmountDifferences == {-1, 0, 1}

\* Transaction(amount=..., description=..., date=..., reference=...)
TransactionCall ==
    /\ \E amount \in Amounts, description \in ModelDescriptions,
          date \in ModelDates, reference \in ModelReferences :
         LET kw == [amount |-> amount, description |-> description,
                    date |-> date, reference |-> reference]
         IN model_call' = << [class |-> "Transaction", args |-> kw,
                              result |-> TransactionInit(kw)] >>
    /\ UNCHANGED <<matcher_vars, parser_vars, filter_vars, upload_vars,
                   download_vars>>

\* Invoice(invoice_number=..., file_path=..., amount=...)
InvoiceCall ==
    /\ \E invoice_number \in ModelInvoiceNumbers,
          file_path \in ModelFilePaths, amount \in ModelInvoiceAmounts :
         model_call' =
            << [class |-> "Invoice",
                args |-> [invoice_number |-> invoice_number,
                          file_path |-> file_path, amount |-> amount],
                result |-> InvoiceInit(invoice_number, file_path, amount)] >>
    /\ UNCHANGED <<matcher_vars, parser_vars, filter_vars, upload_vars,
                   download_vars>>

\* MatchResult(transaction=..., invoice=..., confidence_score=...,
\* amount_difference=..., match_reasons=[])
MatchResultCall ==
    /\ \E transaction \in TransactionValues, invoice \in InvoiceValues,
          confidence_score \in ModelConfidenceScores,
          amount_difference \in ModelAmountDifferences :
         model_call' =
            << [class |-> "MatchResult",
                args |-> [transaction |-> transaction, invoice |-> invoice,
                          confidence_score |-> confidence_score,
                          amount_difference |-> amount_difference],
                result |-> MatchResultInit(transaction, invoice,
                                           confidence_score,
                                           amount_difference, <<>>)] >>
    /\ UNCHANGED <<matcher_vars, parser_vars, filter_vars, upload_vars,
                   download_vars>>

----------------------------------------------------------------------------
(* ui/controllers/matching_controller.py: the download worker *)

\* The MatchingSummary object the worker is handed: the one the display
\* holds (ui/main_app.py:404), whose list _on_matches_deleted changes in
\* place.
SharedPairs == current_summary[1].matched_pairs

\* The argument download_path (results_display.py:478-480)
DownloadPath == <<"Downloads", "SnelStartPackages">>

\* self.on_download_error(error_msg) (matching_controller.py:216-217,
\* 245-269)
OnDownloadError(error) == [callback |-> "on_download_error", error |-> error]

\* self.on_download_success(package) (matching_controller.py:242-243)
OnDownloadSuccess(package) ==
    [callback |-> "on_download_success", package |-> package]

\* prepare_download_package_async (matching_controller.py:199-274): the
\* thread is started.
PrepareDownloadPackageAsync ==
    /\ download_pc = "idle"
    /\ current_summary # <<>>
    /\ Len(download_log) < MaxDownloads
    /\ download_pc' = "check"
    /\ download_frame' = [download_path |-> DownloadPath]
    /\ UNCHANGED <<has_sigalrm, download_log>>
    /\ UNCHANGED <<matcher_vars, parser_vars, filter_vars, upload_vars,
                   models_vars>>

\* download_worker up to time.sleep (matching_controller.py:212-230)
DownloadWorkerCheck ==
    /\ download_pc = "check"
    /\ IF SharedPairs = <<>>
       THEN /\ download_pc' = "idle"
            /\ download_frame' = <<>>
            /\ download_log' = Append(download_log, OnDownloadError([message |-> "No matched pairs"]))
       ELSE /\ download_pc' = "prepare"
            /\ UNCHANGED <<download_frame, download_log>>
    /\ UNCHANGED has_sigalrm
    /\ UNCHANGED <<matcher_vars, parser_vars, filter_vars, upload_vars,
                   models_vars>>

\* prepare_upload_data up to the working directory
\* (upload_data_generator.py:67-79); its ValueError reaches line 265 of the
\* worker.
PrepareUploadDataBegin ==
    /\ download_pc = "prepare"
    /\ IF SharedPairs = <<>>
       THEN /\ download_pc' = "idle"
            /\ download_frame' = <<>>
            /\ download_log' = Append(download_log,
                                      OnDownloadError(ValueError))
            /\ fs' = fs
       ELSE \E name \in DirNames :
              LET temp_base_dir == <<download_frame.download_path>>
                  temp_dir == TempDir(temp_base_dir, name)
              IN /\ temp_dir \notin DOMAIN fs
                 /\ fs' = MakeDirs(MakeDirs(fs, temp_base_dir[1]), temp_dir)
                 /\ download_frame' =
                       [download_path |-> download_frame.download_path,
                        temp_dir |-> temp_dir]
                 /\ download_pc' = "generate"
                 /\ download_log' = download_log
    /\ UNCHANGED has_sigalrm
    /\ UNCHANGED <<summary_pairs, source_files, disk_write, rmtree_ok,
                   generate_log, upload_log, cleanup_log>>
    /\ UNCHANGED <<matcher_vars, parser_vars, filter_vars, models_vars>>

\* prepare_upload_data, step 1 (upload_data_generator.py:82-84), and the
\* handler of lines 109-113 when it raises
PrepareUploadDataGenerate ==
    /\ download_pc = "generate"
    /\ LET temp_dir == download_frame.temp_dir
           generated == GenerateMt940File(SharedPairs, temp_dir, fs,
                                          disk_write)
       IN IF IsError(generated.result)
          THEN /\ fs' = CleanupTempDirectory(generated.fs, temp_dir,
                                             rmtree_ok)
               /\ download_pc' = "idle"
               /\ download_frame' = <<>>
               /\ download_log' = Append(download_log,
                                         OnDownloadError(generated.result))
          ELSE /\ fs' = generated.fs
               /\ download_pc' = "copy_begin"
               /\ download_frame' =
                     [download_path |-> download_frame.download_path,
                      temp_dir |-> temp_dir,
                      mt940_file_path |-> generated.result.path]
               /\ download_log' = download_log
    /\ UNCHANGED has_sigalrm
    /\ UNCHANGED <<summary_pairs, source_files, disk_write, rmtree_ok,
                   generate_log, upload_log, cleanup_log>>
    /\ UNCHANGED <<matcher_vars, parser_vars, filter_vars, models_vars>>

\* _copy_matched_pdfs up to its loop (upload_data_generator.py:144-150):
\* the list iterator starts before the first element.
CopyMatchedPdfsBegin ==
    /\ download_pc = "copy_begin"
    /\ fs' = MakeDirs(fs, Append(download_frame.temp_dir, "pdfs"))
    /\ download_frame' =
          [download_path |-> download_frame.download_path,
           temp_dir |-> download_frame.temp_dir,
           mt940_file_path |-> download_frame.mt940_file_path,
           pdf_files |-> <<>>,
           i |-> 0]
    /\ download_pc' = "copy"
    /\ UNCHANGED <<has_sigalrm, download_log>>
    /\ UNCHANGED <<summary_pairs, source_files, disk_write, rmtree_ok,
                   generate_log, upload_log, cleanup_log>>
    /\ UNCHANGED <<matcher_vars, parser_vars, filter_vars, models_vars>>

\* One turn of the loop of _copy_matched_pdfs on the worker thread
\* (upload_data_generator.py:150-178): the iterator yields the element after
\* the i it has yielded, of the list as it is now, or ends the loop.
CopyMatchedPdfsStep ==
    /\ download_pc = "copy"
    /\ IF download_frame.i < Len(SharedPairs)
       THEN LET invoice == SharedPairs[download_frame.i + 1].invoice
                invoice_number == invoice.invoice_number
                source_pdf_path == invoice.file_path
                dest_pdf_path ==
                    Append(Append(download_frame.temp_dir, "pdfs"),
                           PdfName(invoice_number))
                outcome ==
                    IF source_files[source_pdf_path] = "missing"
                    THEN "missing"
                    ELSE SafeCopyFile(source_files[source_pdf_path],
                                      has_sigalrm, "worker")
            IN /\ fs' = IF outcome = "timeout"
                        THEN WriteFile(fs, dest_pdf_path,
                                       [partial |-> source_pdf_path])
                        ELSE IF outcome = "ok"
                        THEN WriteFile(fs, dest_pdf_path,
                                       [pdf |-> source_pdf_path])
                        ELSE fs
               /\ download_frame' =
                     [download_frame EXCEPT
                        !.i = @ + 1,
                        !.pdf_files =
                            IF outcome = "ok"
                            THEN Put(@, invoice_number, dest_pdf_path)
                            ELSE @]
               /\ download_pc' = "copy"
       ELSE /\ download_pc' = "mapping"
            /\ UNCHANGED <<fs, download_frame>>
    /\ UNCHANGED <<has_sigalrm, download_log>>
    /\ UNCHANGED <<summary_pairs, source_files, disk_write, rmtree_ok,
                   generate_log, upload_log, cleanup_log>>
    /\ UNCHANGED <<matcher_vars, parser_vars, filter_vars, models_vars>>

\* prepare_upload_data, step 3 (upload_data_generator.py:91-93)
CreateTransactionMappingStep ==
    /\ download_pc = "mapping"
    /\ download_frame' =
          [download_path |-> download_frame.download_path,
           temp_dir |-> download_frame.temp_dir,
           mt940_file_path |-> download_frame.mt940_file_path,
           pdf_files |-> download_frame.pdf_files,
           i |-> download_frame.i,
           transaction_mapping |-> CreateTransactionMapping(SharedPairs)]
    /\ download_pc' = "package"
    /\ UNCHANGED <<has_sigalrm, download_log>>
    /\ UNCHANGED <<matcher_vars, parser_vars, filter_vars, upload_vars,
                   models_vars>>

\* prepare_upload_data, step 4 and the return (upload_data_generator.py:
\* 95-107), and the worker's success callback (matching_controller.py:
\* 232-243)
PrepareUploadDataReturn ==
    /\ download_pc = "package"
    /\ download_log' =
          Append(download_log,
                 OnDownloadSuccess(
                    UploadDataPackage(download_frame.mt940_file_path,
                                      download_frame.pdf_files,
                                      download_frame.transaction_mapping,
                                      Len(SharedPairs),
                                      download_frame.temp_dir)))
    /\ download_pc' = "idle"
    /\ download_frame' = <<>>
    /\ UNCHANGED has_sigalrm
    /\ UNCHANGED <<matcher_vars, parser_vars, filter_vars, upload_vars,
                   models_vars>>

----------------------------------------------------------------------------

(* Specifications *)

\* No matcher call was made and there is nothing to match.
MatcherUnused ==
    /\ transactions = <<>>
    /\ invoices = <<>>
    /\ pc = "idle"
    /\ t_pos = 1
    /\ matched_pairs = <<>>
    /\ unmatched_transactions = <<>>
    /\ used_invoices = {}
    /\ results = <<>>
    /\ constructed = <<>>
    /\ current_summary = <<>>
    /\ deleted_log = <<>>

\* No statement file was parsed.
ParserUnused ==
    /\ file = [status |-> "ok", statements |-> <<>>]
    /\ hash_seed = 0
    /\ parse_pc = "idle"
    /\ statement_idx = 1
    /\ txn_idx = 1
    /\ all_transactions = <<>>
    /\ unique_transactions = {}
    /\ filtered_transactions = <<>>
    /\ total_raw_transactions = 0
    /\ duplicates_found = 0
    /\ parse_results = <<>>

\* The filter has the shipped settings and was not called.
FilterUnused ==
    /\ filter_config = FilterConfig
    /\ filter_call = <<>>

\* Nothing was generated or assembled.
UploadUnused ==
    /\ summary_pairs = <<>>
    /\ source_files = <<>>
    /\ disk_write = "ok"
    /\ rmtree_ok = TRUE
    /\ fs = EmptyDisk
    /\ generate_log = <<>>
    /\ upload_log = <<>>
    /\ cleanup_log = <<>>

\* No constructor was called directly.
ModelsUnused == model_call = <<>>

\* No download was started; the platform has SIGALRM.
DownloadUnused ==
    /\ has_sigalrm = TRUE
    /\ download_pc = "idle"
    /\ download_frame = <<>>
    /\ download_log = <<>>

\* The value types: nothing else runs, the constructors are called.
InitModels ==
    /\ MatcherUnused
    /\ ParserUnused
    /\ FilterUnused
    /\ UploadUnused
    /\ ModelsUnused
    /\ DownloadUnused

NextModels ==
    \/ TransactionCall
    \/ InvoiceCall
    \/ MatchResultCall

SpecModels == InitModels /\ [][NextModels]_vars

\* The filter: constructed from some settings, then called on records.
InitFilter ==
    /\ MatcherUnused
    /\ ParserUnused
    /\ UploadUnused
    /\ ModelsUnused
    /\ DownloadUnused
    /\ filter_config \in FilterConfigs
    /\ filter_call = <<>>

NextFilter ==
    \/ ShouldIncludeCall

SpecFilter == InitFilter /\ [][NextFilter]_vars

\* The round trip: a summary of matches is written by the generator and the
\* file is read by the parser.
InitRoundTrip ==
    /\ MatcherUnused
    /\ file = [status |-> "ok", statements |-> <<>>]
    /\ hash_seed \in HashSeeds
    /\ parse_pc = "idle"
    /\ statement_idx = 1
    /\ txn_idx = 1
    /\ all_transactions = <<>>
    /\ unique_transactions = {}
    /\ filtered_transactions = <<>>
    /\ total_raw_transactions = 0
    /\ duplicates_found = 0
    /\ parse_results = <<>>
    /\ FilterUnused
    /\ summary_pairs \in Summaries(RoundTripRecords)
    /\ source_files = [p \in SourcePaths(summary_pairs) |-> "ok"]
    /\ disk_write \in WriteOutcomes
    /\ rmtree_ok = TRUE
    /\ fs = EmptyDisk
    /\ generate_log = <<>>
    /\ upload_log = <<>>
    /\ cleanup_log = <<>>
    /\ ModelsUnused
    /\ DownloadUnused

NextRoundTrip ==
    \/ GenerateFromMatchesCall
    \/ OpenGenerated
    \/ BeginParse
    \/ BeginStatement
    \/ ParseTransaction
    \/ EndStatement
    \/ ReturnParsed

SpecRoundTrip == InitRoundTrip /\ [][NextRoundTrip]_vars

\* The assembler: a summary of matches, the disk and what the environment
\* does to reads, writes and deletions; then calls in any order.
InitUpload ==
    /\ MatcherUnused
    /\ ParserUnused
    /\ FilterUnused
    /\ summary_pairs \in Summaries(UploadRecords)
    /\ source_files \in [SourcePaths(summary_pairs) -> CopyOutcomes]
    /\ disk_write \in WriteOutcomes
    /\ rmtree_ok \in BOOLEAN
    /\ fs \in InitialDisks(summary_pairs)
    /\ generate_log = <<>>
    /\ upload_log = <<>>
    /\ cleanup_log = <<>>
    /\ ModelsUnused
    /\ DownloadUnused

NextUpload ==
    \/ PrepareUploadDataCall
    \/ GenerateFromMatchesCall
    \/ CleanupUploadPackageCall

SpecUpload == InitUpload /\ [][NextUpload]_vars

Init ==
    /\ transactions \in ListsOf(TransactionValues, MaxTransactions)
    /\ invoices \in ListsOf(InvoiceValues, MaxInvoices)
    /\ pc = "idle"
    /\ t_pos = 1
    /\ matched_pairs = <<>>
    /\ unmatched_transactions = <<>>
    /\ used_invoices = {}
    /\ results = <<>>
    /\ constructed = <<>>
    /\ current_summary = <<>>
    /\ deleted_log = <<>>
    /\ file = [status |-> "ok", statements |-> <<>>]
    /\ hash_seed = 0
    /\ parse_pc = "idle"
    /\ statement_idx = 1
    /\ txn_idx = 1
    /\ all_transactions = <<>>
    /\ unique_transactions = {}
    /\ filtered_transactions = <<>>
    /\ total_raw_transactions = 0
    /\ duplicates_found = 0
    /\ parse_results = <<>>
    /\ FilterUnused
    /\ UploadUnused
    /\ ModelsUnused
    /\ DownloadUnused

Next ==
    \/ BeginMatch
    \/ MatchTransaction
    \/ ReturnSummary
    \/ ConstructSummary

Spec == Init /\ [][Next]_vars

\* The review session: the matcher runs on records the parser produced, which
\* are pairwise different in their deduplication key (mt940_parser.py:74-78),
\* and the user deletes matches from the displayed summary.
InitReview ==
    /\ Init
    /\ DistinctKeys(transactions)

NextReview ==
    \/ BeginMatch
    \/ MatchTransaction
    \/ ReturnSummary
    \/ ShowMatchingResults
    \/ OnMatchesDeleted

SpecReview == InitReview /\ [][NextReview]_vars

\* The download: the display shows a summary whose records can be written,
\* the package is assembled on the worker thread while the user deletes
\* matches.  The disk takes every write and every delete; reading a source
\* goes any way it can.
DisplayedSummary(pairs) ==
    MatchingSummaryInit(pairs, <<>>, <<>>, Len(pairs), Len(pairs),
                        MatchRate(Len(pairs), Len(pairs)),
                        SumAmounts(pairs))

\* The records of the displayed matches: one as the constructor makes it,
\* one given SEPA attributes afterwards
DownloadRecords ==
    { MatchedRecord(Dec(10050, 1), 1, <<"TXN002">>),
      SetSepaAttributes(MatchedRecord(Dec(-12550, 2), 2, <<"TXN001">>),
                        << <<"ROYAL CANIN">> >>, << <<"SIP1234567">> >>,
                        << <<"NL01">> >>) }

\* What reading a source that is there can do
DownloadCopyOutcomes == {"ok", "ioerror", "timeout"}

InitDownload ==
    /\ transactions = <<>>
    /\ invoices = <<>>
    /\ pc = "idle"
    /\ t_pos = 1
    /\ matched_pairs = <<>>
    /\ unmatched_transactions = <<>>
    /\ used_invoices = {}
    /\ \E pairs \in Summaries(DownloadRecords) :
         /\ results = <<DisplayedSummary(pairs)>>
         /\ current_summary = <<DisplayedSummary(pairs)>>
         /\ source_files \in [SourcePaths(pairs) -> DownloadCopyOutcomes]
    /\ constructed = <<>>
    /\ deleted_log = <<>>
    /\ ParserUnused
    /\ FilterUnused
    /\ summary_pairs = <<>>
    /\ disk_write = "ok"
    /\ rmtree_ok = TRUE
    /\ fs = EmptyDisk
    /\ generate_log = <<>>
    /\ upload_log = <<>>
    /\ cleanup_log = <<>>
    /\ ModelsUnused
    /\ has_sigalrm \in BOOLEAN
    /\ download_pc = "idle"
    /\ download_frame = <<>>
    /\ download_log = <<>>

NextDownload ==
    \/ PrepareDownloadPackageAsync
    \/ DownloadWorkerCheck
    \/ PrepareUploadDataBegin
    \/ PrepareUploadDataGenerate
    \/ CopyMatchedPdfsBegin
    \/ CopyMatchedPdfsStep
    \/ CreateTransactionMappingStep
    \/ PrepareUploadDataReturn
    \/ OnMatchesDeleted

SpecDownload == InitDownload /\ [][NextDownload]_vars

\* The parser: one statement file, parsed up to MaxParses times, possibly by
\* different runs of the program.
InitParse ==
    /\ transactions = <<>>
    /\ invoices = <<>>
    /\ pc = "idle"
    /\ t_pos = 1
    /\ matched_pairs = <<>>
    /\ unmatched_transactions = <<>>
    /\ used_invoices = {}
    /\ results = <<>>
    /\ constructed = <<>>
    /\ current_summary = <<>>
    /\ deleted_log = <<>>
    /\ file \in StatementFiles
    /\ hash_seed \in HashSeeds
    /\ parse_pc = "idle"
    /\ statement_idx = 1
    /\ txn_idx = 1
    /\ all_transactions = <<>>
    /\ unique_transactions = {}
    /\ filtered_transactions = <<>>
    /\ total_raw_transactions = 0
    /\ duplicates_found = 0
    /\ parse_results = <<>>
    /\ FilterUnused
    /\ UploadUnused
    /\ ModelsUnused
    /\ DownloadUnused

NextParse ==
    \/ BeginParse
    \/ BeginStatement
    \/ ParseTransaction
    \/ EndStatement
    \/ ReturnParsed
    \/ RestartInterpreter

SpecParse == InitParse /\ [][NextParse]_vars

----------------------------------------------------------------------------
(* Properties of the matcher *)

\* The call whose summary was returned last.  Every summary is the latest one
\* in the state its call returns to, so what holds of the latest summary in
\* every state holds of every summary.
LatestCall == IF results = <<>> THEN {} ELSE {Len(results)}

Ids(lst) == { lst[k].id : k \in DOMAIN lst }
TransactionIds(mp) == { mp[k].transaction.id : k \in DOMAIN mp }
InvoiceIds(mp) == { mp[k].invoice.id : k \in DOMAIN mp }

Increasing(lst) ==
    \A k, l \in DOMAIN lst : k < l => lst[k].id < lst[l].id

RECURSIVE SumOfRecords(_)
SumOfRecords(ids) ==
    IF ids = {} THEN 0
    ELSE LET i == CHOOSE x \in ids : TRUE
         IN transactions[i].amount.v + SumOfRecords(ids \ {i})

\* the fraction <<n, d>> is the number q
RateIs(rate, q) == rate[1] = q * rate[2]

\* C1: no summary returned by match_transactions_to_invoices has the same
\* candidate (position in the candidate list) in two matches, nor the same
\* record in two matches.
C1_AtMostOneUse ==
    \A c \in LatestCall :
        /\ ~IsError(results[c])
        /\ LET mp == results[c].matched_pairs
           IN \A k, l \in DOMAIN mp :
                k # l => /\ mp[k].invoice.id # mp[l].invoice.id
                         /\ mp[k].transaction.id # mp[l].transaction.id

\* a later record names an invoice that an earlier match has taken
C1_Witness ==
    /\ results # <<>>
    /\ ~IsError(results[1])
    /\ \E k \in DOMAIN results[1].matched_pairs :
       \E u \in DOMAIN results[1].unmatched_transactions :
          InvoiceNumberInDescription(
              results[1].matched_pairs[k].invoice,
              results[1].unmatched_transactions[u])

\* C2: records are processed in input order; each match binds its record to
\* the first candidate, in candidate order, that no earlier record took and
\* whose number occurs (ignoring case) in the description; confidence is 1.0
\* and the amount difference 0.
C2_FirstUnusedCandidate ==
    \A c \in LatestCall :
        /\ ~IsError(results[c])
        /\ LET mp == results[c].matched_pairs
           IN \A k \in DOMAIN mp :
                LET m == mp[k]
                IN /\ ~IsError(m)
                   /\ \A l \in DOMAIN mp :
                        l < k => m.transaction.id > mp[l].transaction.id
                   /\ m.transaction = transactions[m.transaction.id]
                   /\ m.invoice = invoices[m.invoice.id]
                   /\ IsSubstring(Lower(m.invoice.invoice_number),
                                  Lower(m.transaction.description))
                   /\ m.confidence_score = 1
                   /\ m.amount_difference = 0
                   /\ \A l \in DOMAIN mp :
                        l < k => mp[l].invoice.id # m.invoice.id
                   /\ \A j \in 1..(m.invoice.id - 1) :
                        IsSubstring(Lower(invoices[j].invoice_number),
                                    Lower(m.transaction.description))
                        => \E l \in DOMAIN mp :
                             l < k /\ mp[l].invoice.id = j

\* a record took its second choice because an earlier record had taken the
\* first, and another record had two free candidates to choose from
C2_Witness ==
    /\ results # <<>>
    /\ ~IsError(results[1])
    /\ \E k \in DOMAIN results[1].matched_pairs :
         LET m == results[1].matched_pairs[k]
         IN /\ m.invoice.id = 2
            /\ InvoiceNumberInDescription(invoices[1], m.transaction)

\* two candidates were free and both named in the description
C2_WitnessChoice ==
    /\ results # <<>>
    /\ ~IsError(results[1])
    /\ Len(results[1].matched_pairs) >= 1
    /\ results[1].matched_pairs[1].invoice.id = 1
    /\ Len(invoices) = 2
    /\ InvoiceNumberInDescription(invoices[2],
                                  results[1].matched_pairs[1].transaction)

\* C3: every returned summary has len(unmatched_transactions) =
\* total_transactions - len(matched_pairs) and match_rate =
\* len(matched_pairs) / total_transactions * 100, 0 for an empty record list;
\* the MatchingSummary constructor raises exactly when the first equation is
\* violated.
C3_SummaryConsistent ==
    /\ \A c \in DOMAIN results :
         /\ ~IsError(results[c])
         /\ LET r == results[c]
            IN /\ r.total_transactions = Len(transactions)
               /\ Len(r.unmatched_transactions) =
                      r.total_transactions - Len(r.matched_pairs)
               /\ r.match_rate[2] > 0
               /\ IF r.total_transactions = 0
                  THEN RateIs(r.match_rate, 0)
                  ELSE r.match_rate[1] * r.total_transactions =
                         Len(r.matched_pairs) * 100 * r.match_rate[2]
    /\ constructed # <<>> =>
         LET s == results[Len(results)]
         IN IsError(constructed[1].result) <=>
              Len(s.unmatched_transactions) #
                constructed[1].total_transactions - Len(s.matched_pairs)

\* the constructor rejected an inconsistent total for a summary that has a
\* match and an unmatched record
C3_Witness ==
    /\ constructed # <<>>
    /\ IsError(constructed[1].result)
    /\ Len(results[1].matched_pairs) >= 1
    /\ Len(results[1].unmatched_transactions) >= 1

\* C4: every input record is in exactly one of matched_pairs and
\* unmatched_transactions, every input candidate in exactly one of
\* matched_pairs and unmatched_invoices; a record is unmatched exactly when
\* every candidate naming it was taken by an earlier record; the three lists
\* keep input order.
C4_Partition ==
    \A c \in LatestCall :
        /\ ~IsError(results[c])
        /\ LET r == results[c]
               mp == r.matched_pairs
               ut == r.unmatched_transactions
               ui == r.unmatched_invoices
           IN /\ TransactionIds(mp) \cup Ids(ut) = DOMAIN transactions
              /\ TransactionIds(mp) \cap Ids(ut) = {}
              /\ Len(mp) + Len(ut) = Len(transactions)
              /\ InvoiceIds(mp) \cup Ids(ui) = DOMAIN invoices
              /\ InvoiceIds(mp) \cap Ids(ui) = {}
              /\ Len(mp) + Len(ui) = Len(invoices)
              /\ \A k \in DOMAIN ut : ut[k] = transactions[ut[k].id]
              /\ \A k \in DOMAIN ui : ui[k] = invoices[ui[k].id]
              /\ \A k \in DOMAIN mp :
                    /\ mp[k].transaction = transactions[mp[k].transaction.id]
                    /\ mp[k].invoice = invoices[mp[k].invoice.id]
              /\ \A i \in DOMAIN transactions :
                    i \in Ids(ut) <=>
                      \A j \in DOMAIN invoices :
                        InvoiceNumberInDescription(invoices[j],
                                                   transactions[i])
                        => \E k \in DOMAIN mp :
                             /\ mp[k].invoice.id = j
                             /\ mp[k].transaction.id < i
              /\ Increasing(ut)
              /\ Increasing(ui)
              /\ \A k, l \in DOMAIN mp :
                    k < l => mp[k].transaction.id < mp[l].transaction.id

\* a summary with a match, an unmatched record and an unmatched invoice
C4_Witness ==
    /\ results # <<>>
    /\ ~IsError(results[1])
    /\ Len(results[1].matched_pairs) >= 1
    /\ Len(results[1].unmatched_transactions) >= 1
    /\ Len(results[1].unmatched_invoices) >= 1

\* record i names candidate i, for every i
OneToOne ==
    /\ Len(transactions) = Len(invoices)
    /\ \A i \in DOMAIN transactions :
         InvoiceNumberInDescription(invoices[i], transactions[i])

\* C5 as stated: with records and candidates in one-to-one correspondence
\* there is one match per record, nothing is unmatched and match_rate is 100.
C5_OneToOneAllMatched ==
    OneToOne =>
      \A c \in DOMAIN results :
        /\ ~IsError(results[c])
        /\ Len(results[c].matched_pairs) = Len(transactions)
        /\ results[c].unmatched_transactions = <<>>
        /\ results[c].unmatched_invoices = <<>>
        /\ RateIs(results[c].match_rate, 100)

\* C5 amended: as C5, with match_rate 100 when there is at least one record
\* and 0 when the record list is empty.
C5_OneToOneAllMatchedNonEmpty ==
    OneToOne =>
      \A c \in DOMAIN results :
        /\ ~IsError(results[c])
        /\ Len(results[c].matched_pairs) = Len(transactions)
        /\ \A k \in DOMAIN transactions :
             /\ results[c].matched_pairs[k].transaction.id = k
             /\ results[c].matched_pairs[k].invoice.id = k
        /\ results[c].unmatched_transactions = <<>>
        /\ results[c].unmatched_invoices = <<>>
        /\ results[c].match_rate[2] > 0
        /\ IF transactions = <<>>
           THEN RateIs(results[c].match_rate, 0)
           ELSE RateIs(results[c].match_rate, 100)

\* two records and two candidates in correspondence, the first record naming
\* both candidates
C5_Witness ==
    /\ OneToOne
    /\ Len(transactions) = 2
    /\ InvoiceNumberInDescription(invoices[2], transactions[1])
    /\ results # <<>>
    /\ ~IsError(results[1])
    /\ Len(results[1].matched_pairs) = 2

\* C7: a second call on the same records and candidates returns the same
\* summary as the first: the same matches in the same order, the same
\* unmatched records and the same unmatched invoices.
C7_Deterministic ==
    \A c \in DOMAIN results :
        /\ ~IsError(results[c])
        /\ results[c] = results[1]

\* two calls have returned, and the summary has a match and an unmatched
\* record that names the matched invoice
C7_Witness ==
    /\ Len(results) = 2
    /\ ~IsError(results[2])
    /\ \E k \in DOMAIN results[2].matched_pairs :
       \E u \in DOMAIN results[2].unmatched_transactions :
          InvoiceNumberInDescription(
              results[2].matched_pairs[k].invoice,
              results[2].unmatched_transactions[u])

\* C8: total_matched_amount is the signed sum of the amounts of the matched
\* records, and zero when nothing matched.
C8_TotalMatchedAmount ==
    \A c \in LatestCall :
        /\ ~IsError(results[c])
        /\ ~IsPyInt(results[c].total_matched_amount)
        /\ results[c].total_matched_amount.v =
             SumOfRecords(TransactionIds(results[c].matched_pairs))
        /\ results[c].matched_pairs = <<>> =>
             results[c].total_matched_amount.v = 0

\* a debit and a credit are matched
C8_Witness ==
    /\ results # <<>>
    /\ ~IsError(results[1])
    /\ Len(results[1].matched_pairs) = 2
    /\ results[1].matched_pairs[1].transaction.amount.v < 0
    /\ results[1].matched_pairs[2].transaction.amount.v > 0

----------------------------------------------------------------------------
(* Properties of the review display *)

\* the matches of the delete requests so far that were in the summary when
\* the request was made
RemovedMatches ==
    { x \in UNION { { e.deleted_matches[k] : k \in DOMAIN e.deleted_matches } :
                    e \in { deleted_log[n] : n \in DOMAIN deleted_log } } :
        \E n \in DOMAIN deleted_log :
            /\ \E k \in DOMAIN deleted_log[n].deleted_matches :
                   deleted_log[n].deleted_matches[k] = x
            /\ Contains(deleted_log[n].before.matched_pairs, x) }

C6_State ==
    current_summary # <<>> =>
      LET s == current_summary[1]
      IN /\ \A x \in RemovedMatches :
              /\ ~Contains(s.matched_pairs, x)
              /\ \E k \in DOMAIN s.unmatched_transactions :
                    TransactionEq(s.unmatched_transactions[k], x.transaction)
              /\ \E k \in DOMAIN s.unmatched_invoices :
                    InvoiceEq(s.unmatched_invoices[k], x.invoice)
         /\ Len(s.matched_pairs) =
              Len(results[Len(results)].matched_pairs)
                - Cardinality(RemovedMatches)
         /\ Len(s.unmatched_transactions) =
              s.total_transactions - Len(s.matched_pairs)
         /\ s.match_rate[2] > 0
         /\ IF s.total_transactions = 0
            THEN RateIs(s.match_rate, 0)
            ELSE s.match_rate[1] * s.total_transactions =
                   Len(s.matched_pairs) * 100 * s.match_rate[2]
         /\ ~IsPyInt(s.total_matched_amount)
         /\ s.total_matched_amount.v =
              SumOfRecords(TransactionIds(s.matched_pairs))

C6_Step ==
    (/\ deleted_log' # deleted_log
     /\ \A k \in DOMAIN deleted_log'[Len(deleted_log')].deleted_matches :
          ~Contains(current_summary[1].matched_pairs,
                    deleted_log'[Len(deleted_log')].deleted_matches[k]))
    => current_summary' = current_summary

----------------------------------------------------------------------------
(* Properties of the parser *)

\* the raw transactions of the file, in file order
RECURSIVE Flatten(_)
Flatten(ss) == IF ss = <<>> THEN <<>> ELSE ss[1] \o Flatten(Tail(ss))

\* those the statement grammar gave an amount, a date and a narrative
WellFormed(ss) == SelectSeq(Flatten(ss), LAMBDA raw : raw.amount # <<>>)

\* the (date, amount, reference) of a raw transaction, for an interpreter
\* with the given salt
RawKey(seed, raw) ==
    <<DateStr(raw.date), "_", DecimalStr(raw.amount[1]), "_",
      IF raw.transaction_reference # <<>> THEN raw.transaction_reference
      ELSE FallbackReference(seed, raw)>>

FirstWithKey(seed, raws, key) ==
    CHOOSE n \in DOMAIN raws :
        /\ RawKey(seed, raws[n]) = key
        /\ \A m \in 1..(n - 1) : RawKey(seed, raws[m]) # key

\* C9: parse returns no two records with the same (date, amount, reference);
\* of the raw transactions with one key, over all statements of the file, the
\* first is kept and the later ones are dropped whatever the filter says, and
\* the logged number of duplicates is the number of converted transactions
\* minus the number of unique ones.
C9_DedupKeepsFirst ==
    \A c \in DOMAIN parse_results :
      ~IsError(parse_results[c]) =>
        LET e == parse_results[c]
            ts == e.transactions
            raws == WellFormed(file.statements)
            keys == { RawKey(e.seed, raws[n]) : n \in DOMAIN raws }
        IN /\ \A i, j \in DOMAIN ts :
                i # j => UniqueKey(ts[i]) # UniqueKey(ts[j])
           /\ e.log.unique = Cardinality(keys)
           /\ e.log.duplicates = Len(raws) - e.log.unique
           /\ \A i \in DOMAIN ts :
                /\ UniqueKey(ts[i]) \in keys
                /\ LET first ==
                         raws[FirstWithKey(e.seed, raws, UniqueKey(ts[i]))]
                   IN first.transaction_details # <<>> =>
                        ts[i].description = first.transaction_details

\* the records of a list, the first of every key only
RECURSIVE DedupByKey(_)
DedupByKey(ts) ==
    IF ts = <<>> THEN <<>>
    ELSE LET rest == DedupByKey(SubSeq(ts, 1, Len(ts) - 1))
             last == ts[Len(ts)]
         IN IF \E k \in DOMAIN rest : UniqueKey(rest[k]) = UniqueKey(last)
            THEN rest
            ELSE Append(rest, last)

SetOf(lst) == { lst[k] : k \in DOMAIN lst }

SpecRecord(seed, raw) ==
    LET reference == IF raw.transaction_reference # <<>>
                     THEN raw.transaction_reference
                     ELSE FallbackReference(seed, raw)
        joined == Strip(JoinSpace(NonEmpty(
                     <<raw.transaction_details, raw.purpose,
                       raw.extra_details>>)))
        description == IF joined = <<>>
                       THEN <<"Transaction", " ">> \o reference
                       ELSE joined
        sepa_fields == ExtractSepaFields(description)
    IN [amount |-> raw.amount[1], description |-> description,
        date |-> raw.date, reference |-> reference, account |-> None,
        counterparty_name |-> sepa_fields.name,
        remittance_info |-> sepa_fields.remittance,
        counterparty_iban |-> sepa_fields.iban]

InScope(seed, raw) ==
    ShouldIncludeTransaction(filter_config, SpecRecord(seed, raw))
      = PyBool(TRUE)

\* the keys of the first n well-formed transactions that are the first of
\* their key and in scope, in file order
RECURSIVE InScopeKeys(_, _, _)
InScopeKeys(seed, raws, n) ==
    IF n = 0 THEN <<>>
    ELSE LET rest == InScopeKeys(seed, raws, n - 1)
             key == RawKey(seed, raws[n])
         IN IF FirstWithKey(seed, raws, key) = n /\ InScope(seed, raws[n])
            THEN Append(rest, key)
            ELSE rest

\* C11: parse returns exactly the in-scope records of the file: for every
\* (date, amount, reference) key whose first well-formed transaction passes
\* the filter there is one record, the records are in the order of those
\* first occurrences, and every returned record passes the filter.
C11_ParseReturnsInScope ==
    \A c \in DOMAIN parse_results :
      ~IsError(parse_results[c]) =>
        LET e == parse_results[c]
            ts == e.transactions
            raws == WellFormed(file.statements)
        IN /\ [k \in DOMAIN ts |-> UniqueKey(ts[k])]
                = InScopeKeys(e.seed, raws, Len(raws))
           /\ \A k \in DOMAIN ts :
                ShouldIncludeTransaction(filter_config, ts[k]) = PyBool(TRUE)

Malformed(ss) == SelectSeq(Flatten(ss), LAMBDA raw : raw.amount = <<>>)

\* C12: parse fails only when the reader produced no statements; a file with
\* a malformed transaction is parsed to the end, and every other transaction
\* that is well-formed, the first of its key and in scope is in the result.
C12_MalformedSkipped ==
    \A c \in DOMAIN parse_results :
      LET e == parse_results[c]
          raws == WellFormed(file.statements)
      IN /\ IsError(e) <=> file.status # "ok"
         /\ (~IsError(e) /\ Malformed(file.statements) # <<>>) =>
              \A n \in DOMAIN raws :
                (/\ FirstWithKey(e.seed, raws, RawKey(e.seed, raws[n])) = n
                 /\ InScope(e.seed, raws[n]))
                => \E k \in DOMAIN e.transactions :
                     UniqueKey(e.transactions[k]) = RawKey(e.seed, raws[n])

----------------------------------------------------------------------------
(* Properties of the filter *)

\* C13: a filter configured with enabled = False includes every record,
\* whatever its other settings and whatever fields the record has.
C13_FilterBypass ==
    (filter_call # <<>> /\ ~filter_config.enabled) =>
      filter_call[1].result = PyBool(TRUE)

\* the disabled filter was called on a record without SEPA attributes that
\* names neither the keyword nor the pattern, with require_both set
C13_Witness ==
    /\ filter_call # <<>>
    /\ ~filter_config.enabled
    /\ filter_config.require_both
    /\ filter_config.royal_canin_keywords = {"ROYAL CANIN"}
    /\ ~HasAttr(filter_call[1].transaction, "counterparty_name")
    /\ filter_call[1].transaction.description = <<"x">>
    /\ filter_call[1].result = PyBool(TRUE)

\* the keyword occurs in the text, read as the case_sensitive option says
KeywordOccurs(config, text) ==
    \E keyword \in config.royal_canin_keywords :
        IF config.case_sensitive THEN KeywordIn(keyword, text)
        ELSE KeywordIn(Upper(<<keyword>>)[1], Upper(text))

\* a field of the record that is present and not empty
FieldText(record, field) ==
    IF HasAttr(record, field) /\ record[field] # <<>>
       /\ record[field][1] # <<>>
    THEN <<record[field][1]>> ELSE <<>>

\* the keyword match: counterparty_name first, description second
KeywordMatch(config, record) ==
    \/ \E text \in {FieldText(record, "counterparty_name")} :
          text # <<>> /\ KeywordOccurs(config, text[1])
    \/ KeywordOccurs(config, record.description)

\* the pattern match: remittance_info first, description second
PatternMatch(config, record) ==
    \/ \E text \in {FieldText(record, "remittance_info")} :
          text # <<>> /\ SipSearch(config.sip_pattern, text[1])
    \/ SipSearch(config.sip_pattern, record.description)

\* C14: the enabled filter returns keyword match AND pattern match when
\* require_both is set and keyword match OR pattern match when it is not; the
\* keyword is looked for in counterparty_name, then in the description, the
\* pattern in remittance_info, then in the description.
C14_RequireBoth ==
    (filter_call # <<>> /\ filter_config.enabled) =>
      LET record == filter_call[1].transaction
          keyword == KeywordMatch(filter_config, record)
          pattern == PatternMatch(filter_config, record)
      IN filter_call[1].result =
           PyBool(IF filter_config.require_both
                  THEN keyword /\ pattern
                  ELSE keyword \/ pattern)

\* the pattern match with the case of the text read when case_sensitive is set
PatternMatchCase(config, record) ==
    LET Search(text) == IF config.case_sensitive
                        THEN SipSearchCaseSensitive(config.sip_pattern, text)
                        ELSE SipSearch(config.sip_pattern, text)
    IN \/ \E text \in {FieldText(record, "remittance_info")} :
             text # <<>> /\ Search(text[1])
       \/ Search(record.description)

\* C15: on a record that carries the SEPA fields, the enabled filter matches
\* keyword and pattern regardless of letter case when case_sensitive is not
\* set, and when it is set an occurrence that differs from the keyword or the
\* pattern in letter case only is no match.
C15_CaseSensitive ==
    (/\ filter_call # <<>>
     /\ filter_config.enabled
     /\ SepaFields \subseteq DOMAIN filter_call[1].transaction) =>
      LET record == filter_call[1].transaction
          keyword == KeywordMatch(filter_config, record)
          pattern == PatternMatchCase(filter_config, record)
      IN filter_call[1].result =
           PyBool(IF filter_config.require_both
                  THEN keyword /\ pattern
                  ELSE keyword \/ pattern)

----------------------------------------------------------------------------
(* Properties of the generator and the assembler *)

SepaAttributes == {"counterparty_name", "remittance_info", "counterparty_iban"}

\* the record carries the SEPA sub-field
Carries(record, name) == HasAttr(record, name) /\ Truthy(record[name])

\* the parsed record has the amount, date and reference of the original and
\* exactly its SEPA sub-fields
SameRecord(original, parsed) ==
    /\ parsed.amount.v = original.amount.v
    /\ parsed.date = original.date
    /\ parsed.reference = original.reference
    /\ \A name \in SepaAttributes :
          IF Carries(original, name)
          THEN HasAttr(parsed, name) /\ parsed[name] = original[name]
          ELSE ~Carries(parsed, name)

Reproduces(pairs, parsed) ==
    /\ ~IsError(parsed)
    /\ \A k \in DOMAIN pairs :
          \E j \in DOMAIN parsed.transactions :
             SameRecord(pairs[k].transaction, parsed.transactions[j])

\* C16: for a non-empty list of matches and a disk that takes the write,
\* generate_from_matches writes the file, and a parse of that file returns,
\* for each matched record, a record with the same amount, date and
\* reference and exactly the SEPA sub-fields the original carried.
C16_RoundTrip ==
    [][ /\ ( /\ generate_log' # generate_log
             /\ summary_pairs # <<>>
             /\ disk_write = "ok" )
           => ~IsError(generate_log'[Len(generate_log')].result)
        /\ ( /\ Len(parse_results') = Len(parse_results) + 1
             /\ "origin" \in DOMAIN file )
           => Reproduces(summary_pairs, parse_results'[Len(parse_results')])
      ]_vars

\* the second half alone: what a parse of a written file returns
C16_ParsedBack ==
    [][ ( /\ Len(parse_results') = Len(parse_results) + 1
          /\ "origin" \in DOMAIN file )
        => Reproduces(summary_pairs, parse_results'[Len(parse_results')])
      ]_vars

\* C17: generate_from_matches with an empty match list and
\* prepare_upload_data with a summary without matches raise ValueError and
\* leave the file system as it was: no directory made, no file written or
\* replaced.
C17_ValidationBeforeSideEffect ==
    [][ /\ (summary_pairs = <<>> /\ generate_log' # generate_log)
           => /\ generate_log'[Len(generate_log')].result = ValueError
              /\ fs' = fs
        /\ (summary_pairs = <<>> /\ upload_log' # upload_log)
           => /\ upload_log'[Len(upload_log')].result = ValueError
              /\ upload_log'[Len(upload_log')].temp_dir = <<>>
              /\ fs' = fs
      ]_vars

\* both operations were called without matches on a disk that holds an
\* earlier statement file
C17_Witness ==
    /\ summary_pairs = <<>>
    /\ generate_log # <<>>
    /\ upload_log # <<>>
    /\ generate_log[1].result = ValueError
    /\ upload_log[1].result = ValueError
    /\ OutputPath \in DOMAIN fs

\* nothing at or below path is on the disk f
Gone(f, path) == \A q \in DOMAIN f : ~IsPrefix(path, q)

\* the step is a prepare_upload_data call that failed after it had made its
\* working directory
FailedAssembly ==
    /\ upload_log' # upload_log
    /\ IsError(upload_log'[Len(upload_log')].result)
    /\ upload_log'[Len(upload_log')].temp_dir # <<>>

\* C18 as stated: after a prepare_upload_data call that failed once its
\* working directory existed, nothing of that directory is on disk.
C18_Rollback ==
    [][ FailedAssembly
        => Gone(fs', upload_log'[Len(upload_log')].temp_dir[1]) ]_vars

\* C18 amended: the working directory of a failed call is gone unless the
\* deletion itself failed.
C18_RollbackUnlessDeleteFails ==
    [][ (FailedAssembly /\ rmtree_ok)
        => Gone(fs', upload_log'[Len(upload_log')].temp_dir[1]) ]_vars

\* a call failed while writing the statement file into its working
\* directory, and the directory with the partial file is gone
C18_Witness ==
    /\ upload_log # <<>>
    /\ upload_log[1].result = IOError
    /\ upload_log[1].temp_dir # <<>>
    /\ disk_write = "write_fails"
    /\ rmtree_ok
    /\ Gone(fs, upload_log[1].temp_dir[1])

\* the prepare_upload_data call of this step got past the generation of the
\* statement file: the complete file is in the call's working directory
StatementGenerated ==
    /\ upload_log' # upload_log
    /\ upload_log'[Len(upload_log')].temp_dir # <<>>
    /\ LET path == Append(upload_log'[Len(upload_log')].temp_dir[1],
                          "matched_transactions.STA")
       IN /\ path \in DOMAIN fs'
          /\ "lines" \in DOMAIN fs'[path].content

\* the invoice numbers of the matches whose source file can be copied
Copiable(pairs, sources) ==
    { pairs[k].invoice.invoice_number :
        k \in { j \in DOMAIN pairs :
                  sources[pairs[j].invoice.file_path] = "ok" } }

\* C19: once the statement file is generated, a copy that fails (source
\* missing, I/O error, timeout) does not end the assembly: the package is
\* returned, every match whose source can be copied has its copy on disk
\* where the map says, and the map holds exactly those invoice numbers.
C19_CopyFailuresIsolated ==
    [][ StatementGenerated
        => LET package == upload_log'[Len(upload_log')].result
           IN /\ ~IsError(package)
              /\ package.total_matches = Len(summary_pairs)
              /\ DOMAIN package.pdf_files =
                    Copiable(summary_pairs, source_files)
              /\ \A k \in DOMAIN summary_pairs :
                    LET invoice == summary_pairs[k].invoice
                    IN source_files[invoice.file_path] = "ok"
                       => /\ package.pdf_files[invoice.invoice_number]
                                \in DOMAIN fs'
                          /\ fs'[package.pdf_files[invoice.invoice_number]]
                                = FileOf([pdf |-> invoice.file_path])
      ]_vars

\* a package of two matches was returned: the copy of the first match timed
\* out, the copy of the second was made and is the only entry of the map
C19_Witness ==
    /\ Len(summary_pairs) = 2
    /\ upload_log # <<>>
    /\ ~IsError(upload_log[1].result)
    /\ source_files[summary_pairs[1].invoice.file_path] = "timeout"
    /\ source_files[summary_pairs[2].invoice.file_path] = "ok"
    /\ DOMAIN upload_log[1].result.pdf_files =
          {summary_pairs[2].invoice.invoice_number}
    /\ upload_log[1].result.pdf_files[
          summary_pairs[2].invoice.invoice_number] \in DOMAIN fs

\* the step is a prepare_upload_data call that made a working directory
MadeWorkingDirectory ==
    /\ upload_log' # upload_log
    /\ upload_log'[Len(upload_log')].temp_dir # <<>>

\* every path of the package is below the directory
PackageUnder(package, directory) ==
    /\ package.temp_directory = directory
    /\ IsPrefix(directory, package.mt940_file_path)
    /\ package.mt940_file_path # directory
    /\ \A n \in DOMAIN package.pdf_files :
          /\ IsPrefix(directory, package.pdf_files[n])
          /\ package.pdf_files[n] # directory

\* the call of this step made a directory that was not there, returned only
\* paths below it, and left what was on the disk before as it was
OwnDirectoryOnly ==
    LET call == upload_log'[Len(upload_log')]
    IN /\ call.temp_dir[1] \notin DOMAIN fs
       /\ ~IsError(call.result) => PackageUnder(call.result, call.temp_dir[1])
       /\ \A q \in DOMAIN fs : q \in DOMAIN fs' /\ fs'[q] = fs[q]

\* C20 as stated: the working directory a prepare_upload_data call makes did
\* not exist before and is the working directory of no other call, every
\* path of the returned package lies under it, and nothing that was on the
\* disk before is changed.
C20_UniqueWorkingDirectory ==
    [][ MadeWorkingDirectory
        => /\ OwnDirectoryOnly
           /\ \A c \in DOMAIN upload_log :
                 upload_log[c].temp_dir
                    # upload_log'[Len(upload_log')].temp_dir
      ]_vars

\* C20 amended: the working directory did not exist when the call made it,
\* so it is the working directory of no other call whose directory is still
\* on disk; the rest as stated.
C20_FreshWorkingDirectory ==
    [][ MadeWorkingDirectory
        => /\ OwnDirectoryOnly
           /\ \A c \in DOMAIN upload_log :
                 ( /\ upload_log[c].temp_dir # <<>>
                   /\ upload_log[c].temp_dir[1] \in DOMAIN fs )
                 => upload_log[c].temp_dir
                       # upload_log'[Len(upload_log')].temp_dir
      ]_vars

\* two calls with the same temp_base_dir returned packages, and both
\* working directories are on disk with their statement files
C20_Witness ==
    /\ Len(upload_log) >= 2
    /\ ~IsError(upload_log[1].result)
    /\ ~IsError(upload_log[2].result)
    /\ upload_log[1].temp_base_dir # <<>>
    /\ upload_log[1].temp_base_dir = upload_log[2].temp_base_dir
    /\ upload_log[1].result.temp_directory
          # upload_log[2].result.temp_directory
    /\ upload_log[1].result.mt940_file_path \in DOMAIN fs
    /\ upload_log[2].result.mt940_file_path \in DOMAIN fs

\* the packages the prepare_upload_data calls returned
Packages ==
    { upload_log[c].result :
        c \in { d \in DOMAIN upload_log : ~IsError(upload_log[d].result) } }

References(pairs) == { pairs[k].transaction.reference : k \in DOMAIN pairs }

\* C21 as stated: transaction_mapping maps the reference of every match to
\* the invoice number of that match, has no other entry, and has
\* total_matches entries.
C21_MappingOfMatches ==
    \A package \in Packages :
       /\ DOMAIN package.transaction_mapping = References(summary_pairs)
       /\ \A k \in DOMAIN summary_pairs :
             package.transaction_mapping[
                summary_pairs[k].transaction.reference]
             = summary_pairs[k].invoice.invoice_number
       /\ Cardinality(DOMAIN package.transaction_mapping)
             = package.total_matches

\* C21 amended: the keys are the references of the matches; a reference is
\* mapped to the invoice number of the last match that has it; there are
\* total_matches entries when no two matches share a reference.
C21_MappingOfLastMatches ==
    \A package \in Packages :
       /\ package.total_matches = Len(summary_pairs)
       /\ DOMAIN package.transaction_mapping = References(summary_pairs)
       /\ \A k \in DOMAIN summary_pairs :
             ( \A j \in (k + 1)..Len(summary_pairs) :
                  summary_pairs[j].transaction.reference
                     # summary_pairs[k].transaction.reference )
             => package.transaction_mapping[
                   summary_pairs[k].transaction.reference]
                = summary_pairs[k].invoice.invoice_number
       /\ Cardinality(References(summary_pairs)) = Len(summary_pairs)
          => Cardinality(DOMAIN package.transaction_mapping)
                = package.total_matches

\* a package of two matches with different references was returned
C21_Witness ==
    /\ Len(summary_pairs) = 2
    /\ summary_pairs[1].transaction.reference
          # summary_pairs[2].transaction.reference
    /\ \E package \in Packages :
          Cardinality(DOMAIN package.transaction_mapping) = 2

\* the step is a cleanup_upload_package call
CleanupReturned == cleanup_log' # cleanup_log

\* C22 as stated: when cleanup_upload_package returns, nothing of the
\* package's working directory is on disk, and a call on a package whose
\* directory is not there changes nothing.
C22_CleanupDeletesTree ==
    [][ CleanupReturned
        => LET temp_directory == cleanup_log'[Len(cleanup_log')]
           IN /\ Gone(fs', temp_directory)
              /\ temp_directory \notin DOMAIN fs => fs' = fs
      ]_vars

\* C22 amended: nothing of the working directory is on disk after the call
\* unless the deletion failed; what lies outside the directory is untouched;
\* a call on a package whose directory is not there changes nothing.
C22_CleanupDeletesTreeUnlessDeleteFails ==
    [][ CleanupReturned
        => LET temp_directory == cleanup_log'[Len(cleanup_log')]
           IN /\ rmtree_ok => Gone(fs', temp_directory)
              /\ \A q \in DOMAIN fs :
                    ~IsPrefix(temp_directory, q)
                    => q \in DOMAIN fs' /\ fs'[q] = fs[q]
              /\ DOMAIN fs' \subseteq DOMAIN fs
              /\ temp_directory \notin DOMAIN fs => fs' = fs
      ]_vars

\* the one package of the run, with a copied PDF, was cleaned up twice and
\* nothing of it is on disk
C22_Witness ==
    /\ Len(upload_log) = 1
    /\ ~IsError(upload_log[1].result)
    /\ DOMAIN upload_log[1].result.pdf_files # {}
    /\ Len(cleanup_log) = 2
    /\ cleanup_log[1] = upload_log[1].result.temp_directory
    /\ cleanup_log[2] = upload_log[1].result.temp_directory
    /\ Gone(fs, upload_log[1].result.temp_directory)

----------------------------------------------------------------------------
(* Properties of the value types *)

\* the arguments break an invariant of the class
InvalidTransaction(args) == args.description = <<>> \/ args.reference = <<>>

InvalidInvoice(args) ==
    \/ args.invoice_number = <<>>
    \/ args.file_path = ""
    \/ (args.amount # <<>> /\ ~(args.amount[1] > 0))

InvalidMatchResult(args) ==
    \/ args.confidence_score < 0
    \/ args.confidence_score > 1
    \/ args.amount_difference < 0

\* C23: a Transaction with an empty description or reference, an Invoice
\* with an empty number, an empty path or an amount that is there and not
\* above zero, and a MatchResult with a confidence_score outside [0, 1] or a
\* negative amount_difference are not constructed: the call raises.
C23_InvariantsAtConstruction ==
    model_call # <<>> =>
       LET call == model_call[1]
       IN /\ (call.class = "Transaction" /\ InvalidTransaction(call.args))
             => IsError(call.result)
          /\ (call.class = "Invoice" /\ InvalidInvoice(call.args))
             => IsError(call.result)
          /\ (call.class = "MatchResult" /\ InvalidMatchResult(call.args))
             => IsError(call.result)

\* an Invoice with amount zero and nothing else wrong was refused
C23_Witness ==
    /\ model_call # <<>>
    /\ model_call[1].class = "Invoice"
    /\ model_call[1].args.amount = <<0>>
    /\ model_call[1].args.invoice_number # <<>>
    /\ model_call[1].args.file_path # ""
    /\ model_call[1].result = ValueError

----------------------------------------------------------------------------
(* Properties of the generated statement *)

\* the complete statement files that generate_from_matches calls wrote
WrittenStatements ==
    { fs[generate_log[c].result.path].content :
        c \in { d \in DOMAIN generate_log :
                  /\ ~IsError(generate_log[d].result)
                  /\ generate_log[d].result.path \in DOMAIN fs } }

\* the positions of the match list in ascending order of date, positions
\* with equal dates in the order of the list
IsStableDateOrder(pairs, order) ==
    /\ DOMAIN order = DOMAIN pairs
    /\ { order[k] : k \in DOMAIN order } = DOMAIN pairs
    /\ \A i, j \in DOMAIN order :
          i < j =>
             \/ pairs[order[i]].transaction.date
                   < pairs[order[j]].transaction.date
             \/ /\ pairs[order[i]].transaction.date
                      = pairs[order[j]].transaction.date
                /\ order[i] < order[j]

\* C24: the transaction lines of a written statement are those of the
\* matched records in ascending order of date, records of equal date in the
\* order of the match list, and the opening balance bears the earliest date.
C24_LinesSortedByDate ==
    \A content \in WrittenStatements :
       /\ \E order \in [DOMAIN summary_pairs -> DOMAIN summary_pairs] :
             /\ IsStableDateOrder(summary_pairs, order)
             /\ DOMAIN content.lines = DOMAIN summary_pairs
             /\ \A k \in DOMAIN content.lines :
                   content.lines[k] = GenerateTransactionLines(
                                         summary_pairs[order[k]].transaction)
       /\ \A k \in DOMAIN content.lines :
             \A l \in DOMAIN content.lines :
                k < l => ParseDateShort(content.lines[k].transaction_line.date)
                         <= ParseDateShort(
                               content.lines[l].transaction_line.date)
       /\ \A k \in DOMAIN summary_pairs :
             ParseDateShort(content.opening_balance.date)
                <= summary_pairs[k].transaction.date
       /\ \E k \in DOMAIN summary_pairs :
             content.opening_balance.date
                = DateStrShort(summary_pairs[k].transaction.date)

\* a statement was written for two matches listed with the later date first
C24_Witness ==
    /\ Len(summary_pairs) = 2
    /\ summary_pairs[1].transaction.date > summary_pairs[2].transaction.date
    /\ WrittenStatements # {}
    /\ \A content \in WrittenStatements : Len(content.lines) = 2

\* the amount of a transaction line with the sign its marker stands for, in
\* hundredths
SignedLineAmount(transaction_line) ==
    IF transaction_line.debit_credit = "D" THEN -transaction_line.amount.v
    ELSE transaction_line.amount.v

RECURSIVE SumLineAmounts(_)
SumLineAmounts(lines) ==
    IF lines = <<>> THEN 0
    ELSE SumLineAmounts(SubSeq(lines, 1, Len(lines) - 1))
         + SignedLineAmount(lines[Len(lines)].transaction_line)

RECURSIVE SumRecordAmounts(_)
\* the sum of the matched records' amounts, in hundredths
SumRecordAmounts(pairs) ==
    IF pairs = <<>> THEN 0
    ELSE SumRecordAmounts(SubSeq(pairs, 1, Len(pairs) - 1))
         + pairs[Len(pairs)].transaction.amount.v

Magnitude(n) == IF n < 0 THEN -n ELSE n

TagPositions(narrative, tag) ==
    { i \in 1..(Len(narrative) - 2) :
        /\ narrative[i] = "/"
        /\ narrative[i + 1] = tag
        /\ narrative[i + 2] = "/" }

\* /TAG/ occurs once in the narrative and the value follows it
TagWithValue(narrative, tag, value) ==
    /\ Cardinality(TagPositions(narrative, tag)) = 1
    /\ \A i \in TagPositions(narrative, tag) :
          /\ value # <<>>
          /\ i + 2 + Len(value) <= Len(narrative)
          /\ SubSeq(narrative, i + 3, i + 2 + Len(value)) = value

SepaTag(name) ==
    IF name = "counterparty_name" THEN "NAME"
    ELSE IF name = "remittance_info" THEN "REMI"
    ELSE "IBAN"

\* the detail line has the tags of the sub-fields the record carries, each
\* with its value, and no other of the three tags
DetailLineOf(record, narrative) ==
    \A name \in SepaAttributes :
       IF Carries(record, name)
       THEN TagWithValue(narrative, SepaTag(name), record[name][1])
       ELSE TagPositions(narrative, SepaTag(name)) = {}

\* C26: generate_from_matches on a non-empty match list does not fail on a
\* record for want of a SEPA sub-field, and in the statement it writes the
\* detail line of each record has /NAME/, /REMI/ and /IBAN/ exactly for the
\* sub-fields the record carries, each followed by its value.
C26_DetailLineTags ==
    \A c \in DOMAIN generate_log :
       summary_pairs # <<>> =>
          /\ generate_log[c].result # AttributeError
          /\ ~IsError(generate_log[c].result) =>
                LET content == fs[generate_log[c].result.path].content
                IN \E order \in [DOMAIN summary_pairs
                                   -> DOMAIN summary_pairs] :
                      /\ { order[k] : k \in DOMAIN order }
                            = DOMAIN summary_pairs
                      /\ DOMAIN content.lines = DOMAIN summary_pairs
                      /\ \A k \in DOMAIN content.lines :
                            /\ content.lines[k].transaction_line.reference
                                  = summary_pairs[order[k]].transaction
                                       .reference
                            /\ DetailLineOf(
                                  summary_pairs[order[k]].transaction,
                                  content.lines[k].detail_line)

----------------------------------------------------------------------------
(* Properties of the conversion *)

\* the occurrences /TAG/value/ in the narrative: <<b, e>> when /TAG/ begins
\* at b and the next "/" after a value of at least one word is at e
TagOccurrences(narrative, tag) ==
    { p \in (1..Len(narrative)) \X (1..Len(narrative)) :
        /\ p[1] + 3 < p[2]
        /\ narrative[p[1]] = "/"
        /\ narrative[p[1] + 1] = tag
        /\ narrative[p[1] + 2] = "/"
        /\ narrative[p[2]] = "/"
        /\ \A q \in (p[1] + 3)..(p[2] - 1) : narrative[q] # "/" }

\* the value of the first occurrence of /TAG/value/: a set of at most one
TagValue(narrative, tag) ==
    { Strip(SubSeq(narrative, p[1] + 3, p[2] - 1)) :
        p \in { o \in TagOccurrences(narrative, tag) :
                  \A o2 \in TagOccurrences(narrative, tag) :
                     o[1] <= o2[1] } }

\* the narrative of a raw transaction as the parser joins it
Narrative(raw) ==
    Strip(JoinSpace(NonEmpty(<<raw.transaction_details, raw.purpose,
                               raw.extra_details>>)))

\* C27: the first well-formed transaction of a file yields a record whose
\* description is the narrative and which carries, for each of NAME, REMI
\* and IBAN on its own, the value of /TAG/value/ when the narrative has it
\* and no value when it has not.
C27_SepaFieldsIndependent ==
    ( /\ parse_pc = "transactions"
      /\ statement_idx = 1
      /\ txn_idx = 2
      /\ file.statements[1][1].amount # <<>> )
    => LET raw == file.statements[1][1]
       IN /\ Len(all_transactions) = 1
          /\ Narrative(raw) # <<>>
                => all_transactions[1].description = Narrative(raw)
          /\ \A name \in SepaAttributes :
                LET value == TagValue(all_transactions[1].description,
                                      SepaTag(name))
                IN IF value = {}
                   THEN ~Carries(all_transactions[1], name)
                   ELSE /\ HasAttr(all_transactions[1], name)
                        /\ all_transactions[1][name] # <<>>
                        /\ value = { all_transactions[1][name][1] }

\* C28: the fallback reference of a transaction without a bank reference is
\* the same in every run: the reference the run of an earlier parse made for
\* it is the reference the running interpreter makes for it.
C28_FallbackReferenceDeterministic ==
    \A c \in DOMAIN parse_results :
       \A n \in DOMAIN WellFormed(file.statements) :
          LET raw == WellFormed(file.statements)[n]
          IN raw.transaction_reference = <<>>
             => /\ FallbackReference(parse_results[c].seed, raw)
                      = FallbackReference(hash_seed, raw)
                /\ RawKey(parse_results[c].seed, raw)
                      = RawKey(hash_seed, raw)

----------------------------------------------------------------------------
(* Properties of the download worker *)

\* the packages the worker handed to on_download_success
DownloadedPackages ==
    { download_log[c].package :
        c \in { d \in DOMAIN download_log :
                  download_log[d].callback = "on_download_success" } }

\* prepare_upload_data(summary, temp_base_dir=download_path) on the main
\* thread for the displayed matches, with the working directory of package
OnMainThread(package) ==
    PrepareUploadData(ShownMatches, <<DownloadPath>>,
                      package.temp_directory[Len(package.temp_directory)],
                      EmptyDisk,
                      CopyOutcomesOn(source_files, has_sigalrm, "main"),
                      disk_write, rmtree_ok)

\* C29: for the same matches and the same behaviour of the file system, the
\* package assembled on the worker thread has the pdf map of the assembly on
\* the main thread and the same copies on disk; a source that can be read is
\* copied on the worker thread whether or not the deadline can be armed.
C29_WorkerAsMainThread ==
    \A package \in DownloadedPackages :
       SharedPairs = ShownMatches
       => LET main == OnMainThread(package)
              pdfs_dir == Append(package.temp_directory, "pdfs")
          IN /\ ~IsError(main.result)
             /\ package.pdf_files = main.result.pdf_files
             /\ \A p \in DOMAIN fs \cup DOMAIN main.fs :
                   IsPrefix(pdfs_dir, p)
                   => /\ p \in DOMAIN fs
                      /\ p \in DOMAIN main.fs
                      /\ fs[p] = main.fs[p]
             /\ \A k \in DOMAIN ShownMatches :
                   source_files[ShownMatches[k].invoice.file_path] = "ok"
                   => ShownMatches[k].invoice.invoice_number
                         \in DOMAIN package.pdf_files

\* the elements of lst at the positions kept, in their order
RECURSIVE Keep(_, _, _)
Keep(lst, kept, n) ==
    IF n = 0 THEN <<>>
    ELSE IF n \in kept THEN Append(Keep(lst, kept, n - 1), lst[n])
    ELSE Keep(lst, kept, n - 1)

\* the lists the displayed summary can hold after matches were removed
MatchLists ==
    { Keep(ShownMatches, kept, Len(ShownMatches)) :
        kept \in SUBSET DOMAIN ShownMatches }

\* package is what the assembly of the list pairs on the worker thread
\* returns and writes
DescribesMatches(package, pairs) ==
    LET temp_dir == package.temp_directory
        generated == GenerateMt940File(pairs, temp_dir, EmptyDisk, disk_write)
        copied == CopyMatchedPdfs(pairs, temp_dir, EmptyDisk,
                                  CopyOutcomesOn(source_files, has_sigalrm,
                                                 "worker"))
    IN /\ package.total_matches = Len(pairs)
       /\ package.transaction_mapping = CreateTransactionMapping(pairs)
       /\ package.pdf_files = copied.pdf_files
       /\ ~IsError(generated.result)
       /\ package.mt940_file_path = generated.result.path
       /\ fs[package.mt940_file_path]
             = generated.fs[package.mt940_file_path]

\* C30: whatever the user deletes while the worker runs, the statement
\* file, the pdf map, the transaction mapping and total_matches of a
\* returned package describe one list of matches.
C30_OneMatchSet ==
    \A package \in DownloadedPackages :
       \E pairs \in MatchLists : DescribesMatches(package, pairs)

=============================================================================
